---- MODULE Spec2Model ----
(***************************************************************************)
(* Role-based access control of FlaskStarter: users hold roles, roles hold *)
(* permissions, the evaluator methods of User/Role decide capabilities and *)
(* the four decorators of app/middleware/permissions.py gate the routes.   *)
(*                                                                         *)
(* Names are sequences of one-character strings so that str.lower() and    *)
(* the case-insensitive collation of the MySQL store are computed, not     *)
(* assumed.                                                                *)
(***************************************************************************)
EXTENDS Integers, Sequences, FiniteSets, Bags, TLC

\* ------------------------------------------------------------------ bounds
\* Highest auto-increment id handed out per table.
MaxUsers == 2
MaxRoles == 2
MaxPerms == 2
\* Longest list of capability names handed to an evaluator method.
MaxListLen == 2
\* Rows the admin routes may add to the roles table and to the permissions
\* table on top of the seeded ones.
MaxCreated == 2

\* ------------------------------------------------------------ characters
UpperLetters == <<"A","B","C","D","E","F","G","H","I","J","K","L","M",
                  "N","O","P","Q","R","S","T","U","V","W","X","Y","Z">>
LowerLetters == <<"a","b","c","d","e","f","g","h","i","j","k","l","m",
                  "n","o","p","q","r","s","t","u","v","w","x","y","z">>

\* str.lower() on one character: ASCII upper-case letters are mapped to
\* their lower-case letter, every other character is kept.
LowerChar(c) ==
    IF \E i \in 1..26 : UpperLetters[i] = c
    THEN LowerLetters[CHOOSE i \in 1..26 : UpperLetters[i] = c]
    ELSE c

\* str.lower() / SQL LOWER() on a whole name, character by character.
LowerName(s) == [i \in 1..Len(s) |-> LowerChar(s[i])]

\* ------------------------------------------------------------------ names
\* Role names used by the seeds and by the gated test routes.
Admin == <<"A","d","m","i","n">>
admin == <<"a","d","m","i","n">>
ADMIN == <<"A","D","M","I","N">>
User == <<"U","s","e","r">>
Editor == <<"E","d","i","t","o","r">>

\* The words the permission names are made of.
w_view == <<"v","i","e","w"," ">>
w_create == <<"c","r","e","a","t","e"," ">>
w_edit == <<"e","d","i","t"," ">>
w_delete == <<"d","e","l","e","t","e"," ">>
w_users == <<"u","s","e","r","s">>
w_roles == <<"r","o","l","e","s">>
w_permissions == <<"p","e","r","m","i","s","s","i","o","n","s">>

\* Permission names used by the seeds and by the routes.
view_users == w_view \o w_users
create_users == w_create \o w_users
edit_users == w_edit \o w_users
delete_users == w_delete \o w_users
view_roles == w_view \o w_roles
create_roles == w_create \o w_roles
edit_roles == w_edit \o w_roles
delete_roles == w_delete \o w_roles
view_permissions == w_view \o w_permissions
create_permissions == w_create \o w_permissions
edit_permissions == w_edit \o w_permissions
delete_permissions == w_delete \o w_permissions
VIEW_USERS == <<"V","I","E","W"," ","U","S","E","R","S">>
export_users == <<"e","x","p","o","r","t"," ">> \o w_users

\* permissions_list of seed_permissions
permissions_list ==
    << view_users, create_users, edit_users, delete_users,
       view_roles, create_roles, edit_roles, delete_roles,
       view_permissions, create_permissions, edit_permissions, delete_permissions >>

\* view_permissions of seed_roles: what the User role is given
view_permissions_list == << view_users, view_roles, view_permissions >>

\* Names the callers of the model layer create roles and permissions with.
RoleNameInputs == {Admin, admin, User}
PermNameInputs == {view_users, VIEW_USERS, edit_users}
EmailInputs == {<<"a","@","x">>, <<"B","@","x">>}

\* Names a caller of the evaluator may ask about.
RoleQueryNames == RoleNameInputs \cup {ADMIN, Editor}
PermQueryNames == PermNameInputs \cup {delete_users}

\* The names typed into the forms of the admin routes: the name of a seeded
\* role in another letter case and names that are new; the name field of the
\* permission form is also left empty.
RoleFormNames == {admin, Editor}
PermFormNames == {export_users, <<>>}

\* Lists of at most MaxListLen names over a set of names.
Lists(S) == UNION {[1..n -> S] : n \in 0..MaxListLen}

Range(f) == {f[i] : i \in DOMAIN f}

\* The options of the multi-select fields of the forms that are submitted,
\* and the lists a form submits: no option, one, both in either order, one
\* twice.
SelectableIds == {1, 2}
Selections == UNION {[1..n -> SelectableIds] : n \in 0..Cardinality(SelectableIds)}

\* Every name the model stores or asks about, and its lower-case form,
\* computed once.
AllNames ==
    RoleQueryNames \cup PermQueryNames \cup EmailInputs \cup PermFormNames
        \cup {permissions_list[i] : i \in DOMAIN permissions_list}
LowerCache == [s \in AllNames \cup {LowerName(n) : n \in AllNames} |-> LowerName(s)]

\* str.lower() / SQL LOWER()
Lower(s) == LowerCache[s]

\* ------------------------------------------------------------------ state
VARIABLES
    users,                  \* table users: id -> stored email
    roles,                  \* table roles: id -> stored name
    permissions,            \* table permissions: id -> stored name
    next_user_id,           \* AUTO_INCREMENT counters of the three tables
    next_role_id,
    next_permission_id,
    user_has_roles,         \* join table User-Role: bag of rows <<user id, role id>>
    role_has_permissions,   \* join table Role-Permission: bag of rows
                            \* <<role id, permission id>>
    session,                \* user id kept in the client's session, 0 when none
    resp,                   \* response to the gated request handled by the
                            \* latest step, NoResponse when that step was not
                            \* a request to a gated route
    error,                  \* the error the latest step ended with, "none"
                            \* when it ended normally
    requests                \* the requests in flight: what each has read and
                            \* the statements of its open transaction

store == <<users, roles, permissions, user_has_roles, role_has_permissions>>
counters == <<next_user_id, next_role_id, next_permission_id>>
vars == <<users, roles, permissions, next_user_id, next_role_id,
          next_permission_id, user_has_roles, role_has_permissions,
          session, resp, error, requests>>

NoResponse == [route |-> "none", status |-> 0, ran |-> FALSE]

\* The workers that serve requests side by side, each request in a session
\* and a transaction of its own, and the transaction of a worker at rest.
Workers == {"w1", "w2"}
Idle == [route |-> "idle", id |-> 0, statements |-> <<>>, flushed |-> 0]
Anonymous == 0

\* ------------------------------------------------------------- the store
\* Equality of two names under the collation of the store
\* (utf8mb4_unicode_ci): letter case is ignored.
SqlEq(a, b) == Lower(a) = Lower(b)

\* The outcome of a statement on a join table: the table after it and the
\* error it raised, "none" when it was executed.
Done(table) == [table |-> table, error |-> "none"]
Failed(table, e) == [table |-> table, error |-> e]

\* INSERT into a join table that has no primary key.
insert_row_NoPrimaryKey(table, row, owner_ids, member_ids) ==
    IF row[1] \notin owner_ids \/ row[2] \notin member_ids
    THEN Failed(table, "IntegrityError")
    ELSE Done(table (+) SetToBag({row}))

\* INSERT of one row <<owner id, member id>> into a join table. Both columns
\* form the primary key, so a row that is stored already is refused; each
\* column is a foreign key, so a row without its parent rows is refused.
insert_row(table, row, owner_ids, member_ids) ==
    IF row[1] \notin owner_ids \/ row[2] \notin member_ids
    THEN Failed(table, "IntegrityError")
    ELSE IF BagIn(row, table)
    THEN Failed(table, "IntegrityError")
    ELSE Done(table (+) SetToBag({row}))

\* DELETE of one row of a join table by the unit of work, which expects the
\* statement to match exactly one row.
delete_row(table, row) ==
    IF CopiesIn(row, table) # 1
    THEN Failed(table, "StaleDataError")
    ELSE Done(table (-) SetToBag({row}))

\* A foreign key without ON DELETE CASCADE and without a check.
cascade_NoAction(table, column, id) == table

\* ON DELETE CASCADE of a join table: the rows of a deleted parent go with it.
cascade(table, column, id) ==
    [row \in {x \in BagToSet(table) : x[column] # id} |-> table[row]]

\* A user loader that trusts the id the session carries.
load_user_Stale(user_id) == user_id

\* Flask-Login's user loader: the session id resolves to the stored user,
\* or to the anonymous user when there is no such row.
load_user(user_id) == IF user_id \in DOMAIN users THEN user_id ELSE Anonymous

current_user == load_user(session)

is_authenticated(u) == u # Anonymous

\* user.roles / role.permissions: the rows joined through the join tables.
user_roles(u) == {r \in DOMAIN roles : BagIn(<<u, r>>, user_has_roles)}
role_permissions(r) == {p \in DOMAIN permissions : BagIn(<<r, p>>, role_has_permissions)}

\* The ids of a set in ascending order (the order the rows are iterated in).
RECURSIVE ordered(_)
ordered(S) ==
    IF S = {} THEN <<>>
    ELSE LET m == CHOOSE x \in S : \A y \in S : x <= y
         IN <<m>> \o ordered(S \ {m})

\* ---------------------------------------------------------- the evaluator
\* Role.has_permission comparing the stored name byte for byte.
Role_has_permission_Exact(r, permission_name) ==
    \E p \in role_permissions(r) : permissions[p] = permission_name

\* Role.has_permission: role.permissions.filter_by(name=permission_name)
Role_has_permission(r, permission_name) ==
    \E p \in role_permissions(r) : SqlEq(permissions[p], permission_name)

\* User.has_role comparing the stored name byte for byte.
has_role_Exact(u, role_name) ==
    \E r \in user_roles(u) : roles[r] = role_name

\* User.has_role: self.roles.filter_by(name=role_name).first() is not None
has_role(u, role_name) ==
    \E r \in user_roles(u) : SqlEq(roles[r], role_name)

\* User.has_any_role without lower-casing either side.
has_any_role_NotLowered(u, role_names) ==
    \E r \in user_roles(u) : roles[r] \in Range(role_names)

\* User.has_any_role: lower(name) IN [r.lower() for r in role_names]
has_any_role(u, role_names) ==
    LET lowered == [i \in DOMAIN role_names |-> Lower(role_names[i])]
    IN \E r \in user_roles(u) :
           \E i \in DOMAIN lowered : SqlEq(Lower(roles[r]), lowered[i])

\* User.has_all_roles without lower-casing the stored names.
has_all_roles_NotLowered(u, role_names) ==
    LET held == {roles[r] : r \in user_roles(u)}
    IN \A i \in DOMAIN role_names : Lower(role_names[i]) \in held

\* User.has_all_roles
has_all_roles(u, role_names) ==
    LET held == {Lower(roles[r]) : r \in user_roles(u)}
    IN \A i \in DOMAIN role_names : Lower(role_names[i]) \in held

\* User.has_permission returning the answer of the first role.
has_permission_FirstRole(u, permission_name) ==
    /\ user_roles(u) # {}
    /\ Role_has_permission(Head(ordered(user_roles(u))), permission_name)

\* User.has_permission: the first role whose has_permission answers true
has_permission(u, permission_name) ==
    \E r \in user_roles(u) : Role_has_permission(r, permission_name)

\* User.has_any_permission without lower-casing the stored names.
has_any_permission_NotLowered(u, permission_names) ==
    LET permission_names_lower ==
            [i \in DOMAIN permission_names |-> Lower(permission_names[i])]
    IN \E r \in user_roles(u) :
           \E p \in role_permissions(r) :
               permissions[p] \in Range(permission_names_lower)

\* User.has_any_permission
has_any_permission(u, permission_names) ==
    LET permission_names_lower ==
            [i \in DOMAIN permission_names |-> Lower(permission_names[i])]
    IN \E r \in user_roles(u) :
           \E p \in role_permissions(r) :
               Lower(permissions[p]) \in Range(permission_names_lower)

\* The loop of User.get_permissions without the seen_ids test.
RECURSIVE collect_permissions_NoSeen(_, _, _)
collect_permissions_NoSeen(rows, acc, seen_ids) ==
    IF rows = <<>> THEN acc
    ELSE collect_permissions_NoSeen(Tail(rows), Append(acc, Head(rows)), seen_ids)

\* The loop of User.get_permissions over the permissions of the user's
\* roles, role by role: a permission is appended unless its id was seen.
RECURSIVE collect_permissions(_, _, _)
collect_permissions(rows, acc, seen_ids) ==
    IF rows = <<>> THEN acc
    ELSE IF Head(rows) \notin seen_ids
         THEN collect_permissions(Tail(rows), Append(acc, Head(rows)),
                                  seen_ids \cup {Head(rows)})
         ELSE collect_permissions(Tail(rows), acc, seen_ids)

\* The permissions of the roles in rs, in iteration order, with repeats.
RECURSIVE permissions_of_roles(_)
permissions_of_roles(rs) ==
    IF rs = <<>> THEN <<>>
    ELSE ordered(role_permissions(Head(rs))) \o permissions_of_roles(Tail(rs))

\* User.get_permissions: the list of permission ids it returns.
get_permissions(u) ==
    collect_permissions(permissions_of_roles(ordered(user_roles(u))), <<>>, {})

\* User.has_all_permissions without lower-casing the requested names.
has_all_permissions_NotLowered(u, permission_names) ==
    LET user_permissions == get_permissions(u)
        user_permission_names ==
            {Lower(permissions[user_permissions[i]]) : i \in DOMAIN user_permissions}
    IN \A i \in DOMAIN permission_names :
           permission_names[i] \in user_permission_names

\* User.has_all_permissions
has_all_permissions(u, permission_names) ==
    LET user_permissions == get_permissions(u)
        user_permission_names ==
            {Lower(permissions[user_permissions[i]]) : i \in DOMAIN user_permissions}
    IN \A i \in DOMAIN permission_names :
           Lower(permission_names[i]) \in user_permission_names

\* Python's None handed over in the place of a name. No name is equal to it.
None == <<"None">>

\* all(x.lower() in held for x in names): the names are lowered one by one
\* and the first one that is not held ends the evaluation; None has no
\* method lower.
RECURSIVE all_lower_in(_, _)
all_lower_in(names, held) ==
    IF names = <<>> THEN "True"
    ELSE IF Head(names) = None THEN "AttributeError"
    ELSE IF Lower(Head(names)) \notin held THEN "False"
    ELSE all_lower_in(Tail(names), held)

\* What a call of an evaluator method of user u with the given names ends
\* with: the answer, or the exception it raises. A name that is None is
\* compared by the store with IS NULL, which no row satisfies; the methods
\* that lower the names they are given call None.lower().
evaluator(method, u, names) ==
    LET answer(b) == IF b THEN "True" ELSE "False"
        some_none == \E i \in DOMAIN names : names[i] = None
    IN CASE method = "has_role" ->
                IF names[1] = None THEN "False" ELSE answer(has_role(u, names[1]))
         [] method = "has_permission" ->
                IF names[1] = None THEN "False"
                ELSE answer(has_permission(u, names[1]))
         [] method = "has_any_role" ->
                IF some_none THEN "AttributeError" ELSE answer(has_any_role(u, names))
         [] method = "has_any_permission" ->
                IF some_none THEN "AttributeError"
                ELSE answer(has_any_permission(u, names))
         [] method = "has_all_roles" ->
                all_lower_in(names, {Lower(roles[r]) : r \in user_roles(u)})
         [] method = "has_all_permissions" ->
                LET user_permissions == get_permissions(u)
                IN all_lower_in(names, {Lower(permissions[user_permissions[i]]) :
                                           i \in DOMAIN user_permissions})

\* A caller asks an evaluator method of a stored user.
evaluate(method, u, names) ==
    /\ u \in DOMAIN users
    /\ error' = IF evaluator(method, u, names) = "AttributeError"
                THEN "AttributeError" ELSE "none"
    /\ resp' = NoResponse
    /\ UNCHANGED <<store, counters, session, requests>>

\* ---------------------------------------------------------------- gates
\* Each decorator answers the status it aborts with, or Admitted when it
\* calls the wrapped function.
Admitted == 0

\* role_required demanding every named role instead of any of them.
role_required_AllRoles(u, role_names) ==
    IF ~is_authenticated(u) THEN 401
    ELSE IF ~has_all_roles(u, role_names) THEN 403
    ELSE Admitted

role_required(u, role_names) ==
    IF ~is_authenticated(u) THEN 401
    ELSE IF ~has_any_role(u, role_names) THEN 403
    ELSE Admitted

permission_required(u, permission_names) ==
    IF ~is_authenticated(u) THEN 401
    ELSE IF ~has_any_permission(u, permission_names) THEN 403
    ELSE Admitted

all_permissions_required(u, permission_names) ==
    IF ~is_authenticated(u) THEN 401
    ELSE IF ~has_all_permissions(u, permission_names) THEN 403
    ELSE Admitted

\* all_roles_required testing the roles before the authentication.
all_roles_required_RolesFirst(u, role_names) ==
    IF ~has_all_roles(u, role_names) THEN 403
    ELSE IF ~is_authenticated(u) THEN 401
    ELSE Admitted

all_roles_required(u, role_names) ==
    IF ~is_authenticated(u) THEN 401
    ELSE IF ~has_all_roles(u, role_names) THEN 403
    ELSE Admitted

\* The routes of the middleware tests: a gate around a function that only
\* returns 'success'.
GateRoutes ==
    { [route |-> "test_permission_required", gate |-> "permission_required",
       names |-> <<view_users>>],
      [route |-> "test_role_required", gate |-> "role_required",
       names |-> <<Admin>>],
      [route |-> "test_all_permissions", gate |-> "all_permissions_required",
       names |-> <<view_users, edit_users>>],
      [route |-> "test_all_roles", gate |-> "all_roles_required",
       names |-> <<Admin, User>>],
      [route |-> "test_multiple_permissions", gate |-> "permission_required",
       names |-> <<view_users, edit_users>>],
      [route |-> "test_multiple_roles", gate |-> "role_required",
       names |-> <<Admin, Editor>>] }

\* The decorator a route is wrapped in, applied to the caller u.
gate_of(rt, u) ==
    CASE rt.gate = "role_required" -> role_required(u, rt.names)
      [] rt.gate = "permission_required" -> permission_required(u, rt.names)
      [] rt.gate = "all_permissions_required" -> all_permissions_required(u, rt.names)
      [] rt.gate = "all_roles_required" -> all_roles_required(u, rt.names)

\* A request to one of the gated test routes.
gated_request(rt) ==
    LET g == gate_of(rt, current_user)
    IN /\ resp' = [route |-> rt.route,
                   status |-> IF g = Admitted THEN 200 ELSE g,
                   ran |-> g = Admitted]
       /\ error' = "none"
       /\ UNCHANGED <<store, counters, session, requests>>

\* ------------------------------------------------------ session handling
\* The row of the users table with the given email, 0 when there is none.
user_by_email(email) ==
    IF \E u \in DOMAIN users : SqlEq(users[u], email)
    THEN CHOOSE u \in DOMAIN users : SqlEq(users[u], email)
    ELSE 0

\* auth.register
register(email) ==
    /\ next_user_id <= MaxUsers
    /\ UNCHANGED requests
    /\ IF is_authenticated(current_user)
       THEN /\ resp' = NoResponse
            /\ error' = "none"
            /\ UNCHANGED <<store, counters, session>>
       ELSE IF user_by_email(Lower(email)) # 0
       THEN /\ resp' = NoResponse
            /\ error' = "Email already registered."
            /\ UNCHANGED <<store, counters, session>>
       ELSE /\ users' = (next_user_id :> Lower(email)) @@ users
            /\ next_user_id' = next_user_id + 1
            /\ resp' = NoResponse
            /\ error' = "none"
            /\ UNCHANGED <<roles, permissions, user_has_roles, role_has_permissions,
                           next_role_id, next_permission_id, session>>

\* auth.login logging in whoever the email names.
login_AnyPassword(email, password_ok) ==
    /\ error' = "none"
    /\ UNCHANGED requests
    /\ IF is_authenticated(current_user)
       THEN /\ resp' = NoResponse
            /\ UNCHANGED <<store, counters, session>>
       ELSE LET user == user_by_email(Lower(email))
            IN IF user # 0
               THEN /\ session' = user
                    /\ resp' = NoResponse
                    /\ UNCHANGED <<store, counters>>
               ELSE /\ resp' = NoResponse
                    /\ UNCHANGED <<store, counters, session>>

\* auth.login; password_ok is the answer of User.check_password
login(email, password_ok) ==
    /\ error' = "none"
    /\ UNCHANGED requests
    /\ IF is_authenticated(current_user)
       THEN /\ resp' = NoResponse
            /\ UNCHANGED <<store, counters, session>>
       ELSE LET user == user_by_email(Lower(email))
            IN IF user # 0 /\ password_ok
               THEN /\ session' = user
                    /\ resp' = NoResponse
                    /\ UNCHANGED <<store, counters>>
               ELSE /\ resp' = NoResponse
                    /\ UNCHANGED <<store, counters, session>>

\* auth.logout, behind login_required
logout ==
    /\ error' = "none"
    /\ UNCHANGED requests
    /\ IF ~is_authenticated(current_user)
       THEN /\ resp' = NoResponse
            /\ UNCHANGED <<store, counters, session>>
       ELSE /\ session' = 0
            /\ resp' = NoResponse
            /\ UNCHANGED <<store, counters>>

\* ------------------------------------------------- administrative callers
\* One pass of the seeding idiom for a role name:
\*   if not Role.query.filter_by(name=name).first(): add Role(name=name); commit
seed_role(name) ==
    /\ next_role_id <= MaxRoles
    /\ ~ \E r \in DOMAIN roles : SqlEq(roles[r], name)
    /\ roles' = (next_role_id :> name) @@ roles
    /\ next_role_id' = next_role_id + 1
    /\ resp' = NoResponse
    /\ error' = "none"
    /\ UNCHANGED <<users, permissions, user_has_roles, role_has_permissions,
                   next_user_id, next_permission_id, session, requests>>

\* One pass of the loop of seed_permissions for a permission name.
seed_permission(name) ==
    /\ next_permission_id <= MaxPerms
    /\ ~ \E p \in DOMAIN permissions : SqlEq(permissions[p], name)
    /\ permissions' = (next_permission_id :> name) @@ permissions
    /\ next_permission_id' = next_permission_id + 1
    /\ resp' = NoResponse
    /\ error' = "none"
    /\ UNCHANGED <<users, roles, user_has_roles, role_has_permissions,
                   next_user_id, next_role_id, session, requests>>

\* The join table after role.give_permission_to(permission): the pair is
\* appended unless the role already has a permission of that name.
granted(rhp, role, permission) ==
    IF \E p \in DOMAIN permissions :
           BagIn(<<role, p>>, rhp) /\ SqlEq(permissions[p], permissions[permission])
    THEN rhp
    ELSE rhp (+) SetToBag({<<role, permission>>})

\* give_permission_to for each permission of a list, in order.
RECURSIVE grant_each(_, _, _)
grant_each(rhp, role, perms) ==
    IF perms = <<>> THEN rhp
    ELSE grant_each(granted(rhp, role, Head(perms)), role, Tail(perms))

\* The loop of seed_permissions: a Permission is added for every name of the
\* list that no stored permission has; the answer is <<table, next id>>.
RECURSIVE add_permissions(_, _, _)
add_permissions(names, table, next_id) ==
    IF names = <<>> THEN <<table, next_id>>
    ELSE IF \E p \in DOMAIN table : SqlEq(table[p], Head(names))
         THEN add_permissions(Tail(names), table, next_id)
         ELSE add_permissions(Tail(names), (next_id :> Head(names)) @@ table,
                              next_id + 1)

\* manage.py seed_permissions
seed_permissions ==
    LET added == add_permissions(permissions_list, permissions, next_permission_id)
    IN /\ permissions' = added[1]
       /\ next_permission_id' = added[2]
       /\ resp' = NoResponse
       /\ error' = "none"
       /\ UNCHANGED <<users, roles, user_has_roles, role_has_permissions,
                      next_user_id, next_role_id, session, requests>>

\* The permissions of a list of names that exist, as Permission.query
\* .filter_by(name=perm_name).first() finds them.
RECURSIVE permissions_named(_)
permissions_named(names) ==
    IF names = <<>> THEN <<>>
    ELSE IF \E p \in DOMAIN permissions : SqlEq(permissions[p], Head(names))
         THEN <<CHOOSE p \in DOMAIN permissions : SqlEq(permissions[p], Head(names))>>
                  \o permissions_named(Tail(names))
         ELSE permissions_named(Tail(names))

\* manage.py seed_roles: Admin with every stored permission, then User with
\* the view permissions, each only when no role of that name is stored.
seed_roles ==
    LET need_admin == ~ \E r \in DOMAIN roles : SqlEq(roles[r], Admin)
        admin_role == next_role_id
        roles1 == IF need_admin THEN (admin_role :> Admin) @@ roles ELSE roles
        next1 == IF need_admin THEN next_role_id + 1 ELSE next_role_id
        rhp1 == IF need_admin
                THEN grant_each(role_has_permissions, admin_role,
                                ordered(DOMAIN permissions))
                ELSE role_has_permissions
        need_user == ~ \E r \in DOMAIN roles1 : SqlEq(roles1[r], User)
        user_role == next1
        roles2 == IF need_user THEN (user_role :> User) @@ roles1 ELSE roles1
        next2 == IF need_user THEN next1 + 1 ELSE next1
        rhp2 == IF need_user
                THEN grant_each(rhp1, user_role, permissions_named(view_permissions_list))
                ELSE rhp1
    IN /\ roles' = roles2
       /\ next_role_id' = next2
       /\ role_has_permissions' = rhp2
       /\ resp' = NoResponse
       /\ error' = "none"
       /\ UNCHANGED <<users, permissions, user_has_roles,
                      next_user_id, next_permission_id, session, requests>>

\* manage.py create_admin
create_admin(email) ==
    /\ next_user_id <= MaxUsers
    /\ resp' = NoResponse
    /\ UNCHANGED requests
    /\ IF user_by_email(Lower(email)) # 0
       THEN /\ error' = "Error: User with this email already exists!"
            /\ UNCHANGED <<store, counters, session>>
       ELSE LET user == next_user_id
                admin_role == IF \E r \in DOMAIN roles : SqlEq(roles[r], Admin)
                              THEN CHOOSE r \in DOMAIN roles : SqlEq(roles[r], Admin)
                              ELSE 0
            IN /\ next_user_id' = next_user_id + 1
               /\ IF admin_role = 0
                  THEN /\ error' = "Error: Admin role not found. Run seed_roles first!"
                       /\ UNCHANGED <<store, next_role_id, next_permission_id, session>>
                  ELSE /\ error' = "none"
                       /\ users' = (user :> Lower(email)) @@ users
                       /\ user_has_roles' =
                              user_has_roles (+) SetToBag({<<user, admin_role>>})
                       /\ UNCHANGED <<roles, permissions, role_has_permissions,
                                      next_role_id, next_permission_id, session>>

\* User.assign_role appending the role without asking has_role first.
assign_role_NoGuard(u, role) ==
    /\ u \in DOMAIN users /\ role \in DOMAIN roles
    /\ LET flushed == insert_row(user_has_roles, <<u, role>>,
                                 DOMAIN users, DOMAIN roles)
       IN /\ user_has_roles' = flushed.table
          /\ error' = flushed.error
    /\ resp' = NoResponse
    /\ UNCHANGED <<users, roles, permissions, role_has_permissions, counters,
                   session, requests>>

\* User.assign_role followed by the commit
assign_role(u, role) ==
    /\ u \in DOMAIN users /\ role \in DOMAIN roles
    /\ LET flushed == IF ~has_role(u, roles[role])
                      THEN insert_row(user_has_roles, <<u, role>>,
                                      DOMAIN users, DOMAIN roles)
                      ELSE Done(user_has_roles)
       IN /\ user_has_roles' = flushed.table
          /\ error' = flushed.error
    /\ resp' = NoResponse
    /\ UNCHANGED <<users, roles, permissions, role_has_permissions, counters,
                   session, requests>>

\* User.remove_role removing every role of the user.
remove_role_EveryRole(u, role) ==
    /\ u \in DOMAIN users /\ role \in DOMAIN roles
    /\ user_has_roles' = IF has_role(u, roles[role])
                         THEN cascade(user_has_roles, 1, u)
                         ELSE user_has_roles
    /\ error' = "none"
    /\ resp' = NoResponse
    /\ UNCHANGED <<users, roles, permissions, role_has_permissions, counters,
                   session, requests>>

\* User.remove_role followed by the commit
remove_role(u, role) ==
    /\ u \in DOMAIN users /\ role \in DOMAIN roles
    /\ LET flushed == IF has_role(u, roles[role])
                      THEN delete_row(user_has_roles, <<u, role>>)
                      ELSE Done(user_has_roles)
       IN /\ user_has_roles' = flushed.table
          /\ error' = flushed.error
    /\ resp' = NoResponse
    /\ UNCHANGED <<users, roles, permissions, role_has_permissions, counters,
                   session, requests>>

\* Role.give_permission_to followed by the commit
give_permission_to(role, permission) ==
    /\ role \in DOMAIN roles /\ permission \in DOMAIN permissions
    /\ LET flushed == IF ~Role_has_permission(role, permissions[permission])
                      THEN insert_row(role_has_permissions, <<role, permission>>,
                                      DOMAIN roles, DOMAIN permissions)
                      ELSE Done(role_has_permissions)
       IN /\ role_has_permissions' = flushed.table
          /\ error' = flushed.error
    /\ resp' = NoResponse
    /\ UNCHANGED <<users, roles, permissions, user_has_roles, counters,
                   session, requests>>

\* Role.revoke_permission_to taking the permission from every role.
revoke_permission_to_EveryRole(role, permission) ==
    /\ role \in DOMAIN roles /\ permission \in DOMAIN permissions
    /\ role_has_permissions' =
           IF Role_has_permission(role, permissions[permission])
           THEN cascade(role_has_permissions, 2, permission)
           ELSE role_has_permissions
    /\ error' = "none"
    /\ resp' = NoResponse
    /\ UNCHANGED <<users, roles, permissions, user_has_roles, counters,
                   session, requests>>

\* Role.revoke_permission_to followed by the commit
revoke_permission_to(role, permission) ==
    /\ role \in DOMAIN roles /\ permission \in DOMAIN permissions
    /\ LET flushed == IF Role_has_permission(role, permissions[permission])
                      THEN delete_row(role_has_permissions, <<role, permission>>)
                      ELSE Done(role_has_permissions)
       IN /\ role_has_permissions' = flushed.table
          /\ error' = flushed.error
    /\ resp' = NoResponse
    /\ UNCHANGED <<users, roles, permissions, user_has_roles, counters,
                   session, requests>>

\* Permission.assign_to_role followed by the commit: the guard looks the
\* role up by id among the roles of the permission.
assign_to_role(permission, role) ==
    /\ role \in DOMAIN roles /\ permission \in DOMAIN permissions
    /\ LET flushed == IF ~BagIn(<<role, permission>>, role_has_permissions)
                      THEN insert_row(role_has_permissions, <<role, permission>>,
                                      DOMAIN roles, DOMAIN permissions)
                      ELSE Done(role_has_permissions)
       IN /\ role_has_permissions' = flushed.table
          /\ error' = flushed.error
    /\ resp' = NoResponse
    /\ UNCHANGED <<users, roles, permissions, user_has_roles, counters,
                   session, requests>>

\* Permission.remove_from_role followed by the commit
remove_from_role(permission, role) ==
    /\ role \in DOMAIN roles /\ permission \in DOMAIN permissions
    /\ LET flushed == IF BagIn(<<role, permission>>, role_has_permissions)
                      THEN delete_row(role_has_permissions, <<role, permission>>)
                      ELSE Done(role_has_permissions)
       IN /\ role_has_permissions' = flushed.table
          /\ error' = flushed.error
    /\ resp' = NoResponse
    /\ UNCHANGED <<users, roles, permissions, user_has_roles, counters,
                   session, requests>>

\* users.delete with the view run before the decorator's verdict is applied.
users_delete_ViewFirst(id) ==
    /\ is_authenticated(current_user)
    /\ error' = "none"
    /\ UNCHANGED requests
    /\ LET g == permission_required(current_user, <<delete_users>>)
       IN /\ resp' = [route |-> "users.delete",
                      status |-> IF g = Admitted THEN 302 ELSE g,
                      ran |-> g = Admitted]
          /\ users' = [u \in DOMAIN users \ {id} |-> users[u]]
          /\ user_has_roles' = cascade(user_has_roles, 1, id)
          /\ UNCHANGED <<roles, permissions, role_has_permissions, counters, session>>

\* ------------------------------------------------------------ users.delete
\* login_required, then permission_required('delete users'), then the view.
users_delete(id) ==
    /\ error' = "none"
    /\ UNCHANGED requests
    /\ IF ~is_authenticated(current_user)
       THEN /\ resp' = [route |-> "users.delete", status |-> 302, ran |-> FALSE]
            /\ UNCHANGED <<store, counters, session>>
       ELSE LET g == permission_required(current_user, <<delete_users>>)
            IN IF g # Admitted
               THEN /\ resp' = [route |-> "users.delete", status |-> g, ran |-> FALSE]
                    /\ UNCHANGED <<store, counters, session>>
               ELSE /\ resp' = [route |-> "users.delete", status |-> 302, ran |-> TRUE]
                    /\ IF id \notin DOMAIN users
                       THEN UNCHANGED <<store, counters, session>>
                       ELSE /\ users' = [u \in DOMAIN users \ {id} |-> users[u]]
                            /\ user_has_roles' = cascade(user_has_roles, 1, id)
                            /\ UNCHANGED <<roles, permissions, role_has_permissions,
                                           counters, session>>

\* ------------------------------------------------------- the admin routes
\* login_required (a redirect to auth.login, 302) and then
\* permission_required(permission_name) around a view: the status the
\* request is refused with, Admitted when the view is called.
route_gate(permission_name) ==
    IF ~is_authenticated(current_user) THEN 302
    ELSE permission_required(current_user, <<permission_name>>)

\* A request that changes nothing: its response and the message it flashed
\* or the validation error the form is rendered with.
answered(route, status, ran, message) ==
    /\ resp' = [route |-> route, status |-> status, ran |-> ran]
    /\ error' = message
    /\ UNCHANGED <<store, counters, session>>

\* The ids of a list, each once, in the order they first appear: the
\* objects appended to a relationship are collected by identity.
RECURSIVE appended(_, _)
appended(ids, seen) ==
    IF ids = <<>> THEN <<>>
    ELSE IF Head(ids) \in seen THEN appended(Tail(ids), seen)
    ELSE <<Head(ids)>> \o appended(Tail(ids), seen \cup {Head(ids)})

\* The statements of a flush on a join table, executed in order; the first
\* one that raises ends the flush.
RECURSIVE flush(_, _, _, _)
flush(table, statements, owner_ids, member_ids) ==
    IF statements = <<>> THEN Done(table)
    ELSE LET st == Head(statements)
             r == IF st.op = "insert"
                  THEN insert_row(table, st.row, owner_ids, member_ids)
                  ELSE delete_row(table, st.row)
         IN IF r.error # "none" THEN r
            ELSE flush(r.table, Tail(statements), owner_ids, member_ids)

\* The statements Role.sync_permissions leaves to the commit: the flush
\* deletes the rows of the permissions the role had, then inserts a row for
\* each permission appended.
sync_statements(role, held, perms) ==
    LET removed == ordered(held)
        added == appended(perms, {})
    IN [i \in DOMAIN removed |->
            [op |-> "delete", table |-> "role_has_permissions",
             row |-> <<role, removed[i]>>]]
       \o [i \in DOMAIN added |->
               [op |-> "insert", table |-> "role_has_permissions",
                row |-> <<role, added[i]>>]]

\* Role.sync_permissions without self.permissions = [].
sync_permissions_NoClear(rhp, role, perms) ==
    flush(rhp, sync_statements(role, {}, perms), DOMAIN roles, DOMAIN permissions)

\* Role.sync_permissions and the commit: the join table it leaves, or the
\* error the commit raised.
sync_permissions(rhp, role, perms) ==
    flush(rhp, sync_statements(role, role_permissions(role), perms),
          DOMAIN roles, DOMAIN permissions)

\* Role.sync_permissions followed by the commit; a commit that raises is
\* rolled back.
Role_sync_permissions(role, perms) ==
    /\ role \in DOMAIN roles
    /\ \A i \in DOMAIN perms : perms[i] \in DOMAIN permissions
    /\ LET synced == sync_permissions(role_has_permissions, role, perms)
       IN /\ role_has_permissions' = IF synced.error = "none"
                                     THEN synced.table
                                     ELSE role_has_permissions
          /\ error' = synced.error
    /\ resp' = NoResponse
    /\ UNCHANGED <<users, roles, permissions, user_has_roles, counters,
                   session, requests>>

\* The join table after user.assign_role(role) inside a request: the pair is
\* appended unless the user already has a role of that name.
assigned(uhr, u, role) ==
    IF \E r \in DOMAIN roles : BagIn(<<u, r>>, uhr) /\ SqlEq(roles[r], roles[role])
    THEN uhr
    ELSE uhr (+) SetToBag({<<u, role>>})

\* assign_role for each role of a list, in order.
RECURSIVE assign_each(_, _, _)
assign_each(uhr, u, role_ids) ==
    IF role_ids = <<>> THEN uhr
    ELSE assign_each(assigned(uhr, u, Head(role_ids)), u, Tail(role_ids))

\* roles.edit
roles_edit(id, name, perms) ==
    /\ UNCHANGED requests
    /\ LET g == route_gate(edit_roles)
           synced == sync_permissions(role_has_permissions, id, perms)
       IN IF g # Admitted THEN answered("roles.edit", g, FALSE, "none")
          ELSE IF id \notin DOMAIN roles
          THEN answered("roles.edit", 302, TRUE, "Role not found.")
          ELSE IF \E r \in DOMAIN roles \ {id} : SqlEq(roles[r], name)
          THEN answered("roles.edit", 200, TRUE, "Role name already exists.")
          ELSE IF \E i \in DOMAIN perms : perms[i] \notin DOMAIN permissions
          THEN answered("roles.edit", 200, TRUE, "Not a valid choice.")
          ELSE IF synced.error # "none"
          THEN answered("roles.edit", 500, TRUE, synced.error)
          ELSE /\ roles' = [roles EXCEPT ![id] = name]
               /\ role_has_permissions' = synced.table
               /\ resp' = [route |-> "roles.edit", status |-> 302, ran |-> TRUE]
               /\ error' = "none"
               /\ UNCHANGED <<users, permissions, user_has_roles, counters, session>>

\* roles.delete leaving the memberships of the role in the join table.
roles_delete_KeepMemberships(id) ==
    /\ UNCHANGED requests
    /\ LET g == route_gate(delete_roles)
       IN IF g # Admitted THEN answered("roles.delete", g, FALSE, "none")
          ELSE IF id \notin DOMAIN roles
          THEN answered("roles.delete", 302, TRUE, "Role not found.")
          ELSE /\ roles' = [r \in DOMAIN roles \ {id} |-> roles[r]]
               /\ role_has_permissions' = cascade(role_has_permissions, 1, id)
               /\ resp' = [route |-> "roles.delete", status |-> 302, ran |-> TRUE]
               /\ error' = "none"
               /\ UNCHANGED <<users, permissions, user_has_roles, counters, session>>

\* roles.delete: the role goes with its rows in both join tables.
roles_delete(id) ==
    /\ UNCHANGED requests
    /\ LET g == route_gate(delete_roles)
       IN IF g # Admitted THEN answered("roles.delete", g, FALSE, "none")
          ELSE IF id \notin DOMAIN roles
          THEN answered("roles.delete", 302, TRUE, "Role not found.")
          ELSE /\ roles' = [r \in DOMAIN roles \ {id} |-> roles[r]]
               /\ user_has_roles' = cascade(user_has_roles, 2, id)
               /\ role_has_permissions' = cascade(role_has_permissions, 1, id)
               /\ resp' = [route |-> "roles.delete", status |-> 302, ran |-> TRUE]
               /\ error' = "none"
               /\ UNCHANGED <<users, permissions, counters, session>>

\* permissions.delete leaving the grants of the permission in the join table.
permissions_delete_KeepGrants(id) ==
    /\ UNCHANGED requests
    /\ LET g == route_gate(delete_permissions)
       IN IF g # Admitted THEN answered("permissions.delete", g, FALSE, "none")
          ELSE IF id \notin DOMAIN permissions
          THEN answered("permissions.delete", 302, TRUE, "Permission not found.")
          ELSE /\ permissions' = [p \in DOMAIN permissions \ {id} |-> permissions[p]]
               /\ resp' = [route |-> "permissions.delete", status |-> 302,
                           ran |-> TRUE]
               /\ error' = "none"
               /\ UNCHANGED <<users, roles, user_has_roles, role_has_permissions,
                              counters, session>>

\* permissions.delete: the permission goes with its rows in the join table.
permissions_delete(id) ==
    /\ UNCHANGED requests
    /\ LET g == route_gate(delete_permissions)
       IN IF g # Admitted THEN answered("permissions.delete", g, FALSE, "none")
          ELSE IF id \notin DOMAIN permissions
          THEN answered("permissions.delete", 302, TRUE, "Permission not found.")
          ELSE /\ permissions' = [p \in DOMAIN permissions \ {id} |-> permissions[p]]
               /\ role_has_permissions' = cascade(role_has_permissions, 2, id)
               /\ resp' = [route |-> "permissions.delete", status |-> 302,
                           ran |-> TRUE]
               /\ error' = "none"
               /\ UNCHANGED <<users, roles, user_has_roles, counters, session>>

\* users.create
users_create(email, role_ids) ==
    /\ next_user_id <= MaxUsers
    /\ UNCHANGED requests
    /\ LET g == route_gate(create_users)
       IN IF g # Admitted THEN answered("users.create", g, FALSE, "none")
          ELSE IF user_by_email(Lower(email)) # 0
          THEN answered("users.create", 200, TRUE, "Email already registered.")
          ELSE IF \E i \in DOMAIN role_ids : role_ids[i] \notin DOMAIN roles
          THEN answered("users.create", 200, TRUE, "Not a valid choice.")
          ELSE /\ users' = (next_user_id :> Lower(email)) @@ users
               /\ next_user_id' = next_user_id + 1
               /\ user_has_roles' = assign_each(user_has_roles, next_user_id, role_ids)
               /\ resp' = [route |-> "users.create", status |-> 302, ran |-> TRUE]
               /\ error' = "none"
               /\ UNCHANGED <<roles, permissions, role_has_permissions,
                              next_role_id, next_permission_id, session>>

\* users.edit storing the email as it was typed.
users_edit_AsTyped(id, email, role_ids) ==
    /\ UNCHANGED requests
    /\ LET g == route_gate(edit_users)
       IN IF g # Admitted THEN answered("users.edit", g, FALSE, "none")
          ELSE IF id \notin DOMAIN users
          THEN answered("users.edit", 302, TRUE, "User not found.")
          ELSE IF \E u \in DOMAIN users \ {id} : SqlEq(users[u], Lower(email))
          THEN answered("users.edit", 200, TRUE, "Email already registered.")
          ELSE IF \E i \in DOMAIN role_ids : role_ids[i] \notin DOMAIN roles
          THEN answered("users.edit", 200, TRUE, "Not a valid choice.")
          ELSE /\ users' = [users EXCEPT ![id] = email]
               /\ user_has_roles' =
                      assign_each(cascade(user_has_roles, 1, id), id, role_ids)
               /\ resp' = [route |-> "users.edit", status |-> 302, ran |-> TRUE]
               /\ error' = "none"
               /\ UNCHANGED <<roles, permissions, role_has_permissions,
                              counters, session>>

\* users.edit: the email is replaced, every current role is removed and the
\* submitted ones are assigned.
users_edit(id, email, role_ids) ==
    /\ UNCHANGED requests
    /\ LET g == route_gate(edit_users)
       IN IF g # Admitted THEN answered("users.edit", g, FALSE, "none")
          ELSE IF id \notin DOMAIN users
          THEN answered("users.edit", 302, TRUE, "User not found.")
          ELSE IF \E u \in DOMAIN users \ {id} : SqlEq(users[u], Lower(email))
          THEN answered("users.edit", 200, TRUE, "Email already registered.")
          ELSE IF \E i \in DOMAIN role_ids : role_ids[i] \notin DOMAIN roles
          THEN answered("users.edit", 200, TRUE, "Not a valid choice.")
          ELSE /\ users' = [users EXCEPT ![id] = Lower(email)]
               /\ user_has_roles' =
                      assign_each(cascade(user_has_roles, 1, id), id, role_ids)
               /\ resp' = [route |-> "users.edit", status |-> 302, ran |-> TRUE]
               /\ error' = "none"
               /\ UNCHANGED <<roles, permissions, role_has_permissions,
                              counters, session>>

\* --------------------------------------------------- requests in flight
\* The ids requests name in their URL: ids of seeded rows and one that no
\* row of the three tables is given.
RequestedIds == SelectableIds \cup {99}

\* The lists a browser submits for a multi-select field: the ticked options
\* in order, each once.
Ticked == {ordered(S) : S \in SUBSET SelectableIds}

\* The routes whose requests are followed up to their commit.
RouteNames ==
    {"roles.create", "roles.edit", "roles.delete", "permissions.create",
     "permissions.edit", "permissions.delete", "users.create", "users.edit",
     "users.delete"}

\* The committed rows of the five tables, which is what a statement of any
\* transaction is checked against.
Database ==
    [users |-> users, roles |-> roles, permissions |-> permissions,
     user_has_roles |-> user_has_roles,
     role_has_permissions |-> role_has_permissions]

write_named_NoUniqueIndex(table, op, row) ==
    IF op = "update" /\ row[1] \notin DOMAIN table
    THEN Failed(table, "StaleDataError")
    ELSE Done((row[1] :> row[2]) @@ [x \in DOMAIN table \ {row[1]} |-> table[x]])

\* A row <<id, name>> written to a table whose name column has a unique
\* index: a name stored for another id is refused. An UPDATE of a row that
\* is gone matches nothing, which the unit of work raises.
write_named(table, op, row) ==
    IF \E x \in DOMAIN table \ {row[1]} : SqlEq(table[x], row[2])
    THEN Failed(table, "IntegrityError")
    ELSE IF op = "update" /\ row[1] \notin DOMAIN table
    THEN Failed(table, "StaleDataError")
    ELSE Done((row[1] :> row[2]) @@ [x \in DOMAIN table \ {row[1]} |-> table[x]])

\* One statement of a transaction on the database: the database after it
\* and the error it raised. The DELETE of a user, a role or a permission
\* takes the rows that reference it along.
execute(db, st) ==
    IF st.table = "user_has_roles"
    THEN LET r == IF st.op = "insert"
                  THEN insert_row(db.user_has_roles, st.row,
                                  DOMAIN db.users, DOMAIN db.roles)
                  ELSE delete_row(db.user_has_roles, st.row)
         IN [db |-> [db EXCEPT !.user_has_roles = r.table], error |-> r.error]
    ELSE IF st.table = "role_has_permissions"
    THEN LET r == IF st.op = "insert"
                  THEN insert_row(db.role_has_permissions, st.row,
                                  DOMAIN db.roles, DOMAIN db.permissions)
                  ELSE delete_row(db.role_has_permissions, st.row)
         IN [db |-> [db EXCEPT !.role_has_permissions = r.table], error |-> r.error]
    ELSE IF st.op = "delete"
    THEN LET id == st.row[1]
             kept == [x \in DOMAIN db[st.table] \ {id} |-> db[st.table][x]]
         IN [db |-> IF st.table = "users"
                    THEN [db EXCEPT !.users = kept,
                                    !.user_has_roles = cascade(@, 1, id)]
                    ELSE IF st.table = "roles"
                    THEN [db EXCEPT !.roles = kept,
                                    !.user_has_roles = cascade(@, 2, id),
                                    !.role_has_permissions = cascade(@, 1, id)]
                    ELSE [db EXCEPT !.permissions = kept,
                                    !.role_has_permissions = cascade(@, 2, id)],
             error |-> "none"]
    ELSE LET r == write_named(db[st.table], st.op, st.row)
         IN [db |-> [db EXCEPT ![st.table] = r.table], error |-> r.error]

\* The statements of a transaction in order; the first one that raises ends
\* the transaction.
RECURSIVE execute_all(_, _)
execute_all(db, statements) ==
    IF statements = <<>> THEN [db |-> db, error |-> "none"]
    ELSE LET r == execute(db, Head(statements))
         IN IF r.error # "none" THEN r
            ELSE execute_all(r.db, Tail(statements))

\* A call of a model method in the session of worker w: what the method read
\* decides the statements it leaves to the commit.
called(w, route, id, statements) ==
    /\ requests[w] = Idle
    /\ requests' = [requests EXCEPT ![w] =
                        [route |-> route, id |-> id,
                         statements |-> statements, flushed |-> 0]]
    /\ resp' = NoResponse
    /\ error' = "none"
    /\ UNCHANGED <<store, counters, session>>

pair_statement(op, table, row) == <<[op |-> op, table |-> table, row |-> row]>>

\* User.assign_role in the session of worker w
begin_assign_role(w, u, role) ==
    /\ u \in DOMAIN users /\ role \in DOMAIN roles
    /\ called(w, "assign_role", u,
              IF ~has_role(u, roles[role])
              THEN pair_statement("insert", "user_has_roles", <<u, role>>)
              ELSE <<>>)

\* User.remove_role in the session of worker w
begin_remove_role(w, u, role) ==
    /\ u \in DOMAIN users /\ role \in DOMAIN roles
    /\ called(w, "remove_role", u,
              IF has_role(u, roles[role])
              THEN pair_statement("delete", "user_has_roles", <<u, role>>)
              ELSE <<>>)

\* Role.give_permission_to in the session of worker w
begin_give_permission_to(w, role, permission) ==
    /\ role \in DOMAIN roles /\ permission \in DOMAIN permissions
    /\ called(w, "give_permission_to", role,
              IF ~Role_has_permission(role, permissions[permission])
              THEN pair_statement("insert", "role_has_permissions", <<role, permission>>)
              ELSE <<>>)

\* Role.revoke_permission_to in the session of worker w
begin_revoke_permission_to(w, role, permission) ==
    /\ role \in DOMAIN roles /\ permission \in DOMAIN permissions
    /\ called(w, "revoke_permission_to", role,
              IF Role_has_permission(role, permissions[permission])
              THEN pair_statement("delete", "role_has_permissions", <<role, permission>>)
              ELSE <<>>)

\* Permission.assign_to_role in the session of worker w
begin_assign_to_role(w, permission, role) ==
    /\ role \in DOMAIN roles /\ permission \in DOMAIN permissions
    /\ called(w, "assign_to_role", role,
              IF ~BagIn(<<role, permission>>, role_has_permissions)
              THEN pair_statement("insert", "role_has_permissions", <<role, permission>>)
              ELSE <<>>)

\* Permission.remove_from_role in the session of worker w
begin_remove_from_role(w, permission, role) ==
    /\ role \in DOMAIN roles /\ permission \in DOMAIN permissions
    /\ called(w, "remove_from_role", role,
              IF BagIn(<<role, permission>>, role_has_permissions)
              THEN pair_statement("delete", "role_has_permissions", <<role, permission>>)
              ELSE <<>>)

\* Role.sync_permissions in the session of worker w: the permissions the
\* role is read to have are removed, the listed ones appended.
begin_sync_permissions(w, role, perms) ==
    /\ role \in DOMAIN roles
    /\ \A i \in DOMAIN perms : perms[i] \in DOMAIN permissions
    /\ called(w, "sync_permissions", role,
              sync_statements(role, role_permissions(role), perms))

\* A commit on a store without transactions: the statements executed ahead
\* of the one that raised stay.
commit_NoRollback(w) ==
    /\ requests[w] # Idle
    /\ LET r == execute_all(Database, requests[w].statements)
       IN /\ users' = r.db.users
          /\ roles' = r.db.roles
          /\ permissions' = r.db.permissions
          /\ user_has_roles' = r.db.user_has_roles
          /\ role_has_permissions' = r.db.role_has_permissions
          /\ error' = r.error
          /\ resp' = IF requests[w].route \in RouteNames
                      THEN [route |-> requests[w].route,
                            status |-> IF r.error = "none" THEN 302 ELSE 500,
                            ran |-> TRUE]
                      ELSE NoResponse
    /\ requests' = [requests EXCEPT ![w] = Idle]
    /\ UNCHANGED <<counters, session>>

\* db.session.commit() of worker w: the statements of its transaction take
\* effect together, or none does and the error is raised.
commit(w) ==
    /\ requests[w] # Idle
    /\ LET r == execute_all(Database, requests[w].statements)
       IN /\ IF r.error = "none"
             THEN /\ users' = r.db.users
                  /\ roles' = r.db.roles
                  /\ permissions' = r.db.permissions
                  /\ user_has_roles' = r.db.user_has_roles
                  /\ role_has_permissions' = r.db.role_has_permissions
             ELSE UNCHANGED store
          /\ error' = r.error
          /\ resp' = IF requests[w].route \in RouteNames
                      THEN [route |-> requests[w].route,
                            status |-> IF r.error = "none" THEN 302 ELSE 500,
                            ran |-> TRUE]
                      ELSE NoResponse
    /\ requests' = [requests EXCEPT ![w] = Idle]
    /\ UNCHANGED <<counters, session>>

\* A store in which a statement takes effect for every session when it is
\* executed.
uncommitted_Visible(db, st) == execute(db, st).db

\* What the other sessions see of a statement that a transaction has
\* executed and not committed: nothing.
uncommitted(db, st) == db

\* A flush inside the request of worker w: the next statement of its
\* transaction is executed ahead of the commit.
flush_next(w) ==
    /\ requests[w] # Idle
    /\ requests[w].flushed < Len(requests[w].statements)
    /\ LET db == uncommitted(Database, requests[w].statements[requests[w].flushed + 1])
       IN /\ users' = db.users
          /\ roles' = db.roles
          /\ permissions' = db.permissions
          /\ user_has_roles' = db.user_has_roles
          /\ role_has_permissions' = db.role_has_permissions
    /\ requests' = [requests EXCEPT ![w].flushed = @ + 1]
    /\ resp' = NoResponse
    /\ error' = "none"
    /\ UNCHANGED <<counters, session>>

\* The DELETE statements for the rows of a join table, in order.
delete_statements(table, rows) ==
    [i \in DOMAIN rows |-> [op |-> "delete", table |-> table, row |-> rows[i]]]

\* The statements users.edit leaves to the commit: the new email, the rows
\* of the roles the user had deleted, one row inserted per role assigned.
role_statements(u, held, role_ids) ==
    LET removed == ordered(held)
        added == appended(role_ids, {})
    IN delete_statements("user_has_roles", [i \in DOMAIN removed |-> <<u, removed[i]>>])
       \o [i \in DOMAIN added |->
               [op |-> "insert", table |-> "user_has_roles", row |-> <<u, added[i]>>]]

\* A rename that deletes the row and inserts it again under the new name.
rename_statement_Recreate(table, id, old, new) ==
    IF old = new THEN <<>>
    ELSE <<[op |-> "delete", table |-> table, row |-> <<id>>],
           [op |-> "insert", table |-> table, row |-> <<id, new>>]>>

\* An UPDATE of the name column of a row, when the name is a new one.
rename_statement(table, id, old, new) ==
    IF old = new THEN <<>>
    ELSE <<[op |-> "update", table |-> table, row |-> <<id, new>>]>>

\* roles.edit up to its commit, in the session of worker w
begin_roles_edit(w, id, name, perms) ==
    /\ requests[w] = Idle
    /\ LET g == route_gate(edit_roles)
       IN IF g # Admitted
          THEN answered("roles.edit", g, FALSE, "none") /\ UNCHANGED requests
          ELSE IF id \notin DOMAIN roles
          THEN answered("roles.edit", 302, TRUE, "Role not found.")
                   /\ UNCHANGED requests
          ELSE IF \E r \in DOMAIN roles \ {id} : SqlEq(roles[r], name)
          THEN answered("roles.edit", 200, TRUE, "Role name already exists.")
                   /\ UNCHANGED requests
          ELSE IF \E i \in DOMAIN perms : perms[i] \notin DOMAIN permissions
          THEN answered("roles.edit", 200, TRUE, "Not a valid choice.")
                   /\ UNCHANGED requests
          ELSE called(w, "roles.edit", id,
              rename_statement("roles", id, roles[id], name)
                          \o sync_statements(id, role_permissions(id), perms))

\* users.edit up to its commit, in the session of worker w
begin_users_edit(w, id, email, role_ids) ==
    /\ requests[w] = Idle
    /\ LET g == route_gate(edit_users)
       IN IF g # Admitted
          THEN answered("users.edit", g, FALSE, "none") /\ UNCHANGED requests
          ELSE IF id \notin DOMAIN users
          THEN answered("users.edit", 302, TRUE, "User not found.")
                   /\ UNCHANGED requests
          ELSE IF \E u \in DOMAIN users \ {id} : SqlEq(users[u], Lower(email))
          THEN answered("users.edit", 200, TRUE, "Email already registered.")
                   /\ UNCHANGED requests
          ELSE IF \E i \in DOMAIN role_ids : role_ids[i] \notin DOMAIN roles
          THEN answered("users.edit", 200, TRUE, "Not a valid choice.")
                   /\ UNCHANGED requests
          ELSE called(w, "users.edit", id,
              rename_statement("users", id, users[id], Lower(email))
                          \o role_statements(id, user_roles(id), role_ids))

\* roles.create up to its commit: the row of the role is inserted by the
\* flush, which takes the next id, and a row per permission given follows.
begin_roles_create(w, name, perms) ==
    /\ requests[w] = Idle
    /\ next_role_id <= Len(<<Admin, User>>) + MaxCreated
    /\ LET g == route_gate(create_roles)
           given == appended(perms, {})
       IN IF g # Admitted
          THEN answered("roles.create", g, FALSE, "none") /\ UNCHANGED requests
          ELSE IF \E r \in DOMAIN roles : SqlEq(roles[r], name)
          THEN answered("roles.create", 200, TRUE, "Role name already exists.")
                   /\ UNCHANGED requests
          ELSE IF \E i \in DOMAIN perms : perms[i] \notin DOMAIN permissions
          THEN answered("roles.create", 200, TRUE, "Not a valid choice.")
                   /\ UNCHANGED requests
          ELSE /\ requests' = [requests EXCEPT ![w] =
                      [route |-> "roles.create", id |-> next_role_id,
                       statements |->
                           <<[op |-> "insert", table |-> "roles",
                              row |-> <<next_role_id, name>>]>>
                           \o [i \in DOMAIN given |->
                                   [op |-> "insert", table |-> "role_has_permissions",
                                    row |-> <<next_role_id, given[i]>>]],
                       flushed |-> 0]]
               /\ next_role_id' = next_role_id + 1
               /\ resp' = NoResponse
               /\ error' = "none"
               /\ UNCHANGED <<store, next_user_id, next_permission_id, session>>

\* users.create up to its commit: the row of the user is inserted by the
\* flush, which takes the next id, and a row per role assigned follows.
begin_users_create(w, email, role_ids) ==
    /\ requests[w] = Idle
    /\ next_user_id <= MaxUsers
    /\ LET g == route_gate(create_users)
       IN IF g # Admitted
          THEN answered("users.create", g, FALSE, "none") /\ UNCHANGED requests
          ELSE IF user_by_email(Lower(email)) # 0
          THEN answered("users.create", 200, TRUE, "Email already registered.")
                   /\ UNCHANGED requests
          ELSE IF \E i \in DOMAIN role_ids : role_ids[i] \notin DOMAIN roles
          THEN answered("users.create", 200, TRUE, "Not a valid choice.")
                   /\ UNCHANGED requests
          ELSE /\ requests' = [requests EXCEPT ![w] =
                      [route |-> "users.create", id |-> next_user_id,
                       statements |->
                           <<[op |-> "insert", table |-> "users",
                              row |-> <<next_user_id, Lower(email)>>]>>
                           \o role_statements(next_user_id, {}, role_ids),
                       flushed |-> 0]]
               /\ next_user_id' = next_user_id + 1
               /\ resp' = NoResponse
               /\ error' = "none"
               /\ UNCHANGED <<store, next_role_id, next_permission_id, session>>

\* A name field that any string passes.
name_validators_Unchecked(name) == "none"

\* The validators of the name field of PermissionForm, in order: the error
\* of the first one that fails, "none" when the name passes. DataRequired
\* refuses the empty string and a string of spaces.
name_validators(name) ==
    IF \A i \in DOMAIN name : name[i] = " "
    THEN "This field is required."
    ELSE IF Len(name) < 2 \/ Len(name) > 255
    THEN "Field must be between 2 and 255 characters long."
    ELSE "none"

\* permissions.create looking the name up byte for byte.
begin_permissions_create_ExactName(w, name) ==
    /\ requests[w] = Idle
    /\ next_permission_id <= Len(permissions_list) + MaxCreated
    /\ LET g == route_gate(create_permissions)
       IN IF g # Admitted
          THEN answered("permissions.create", g, FALSE, "none")
                   /\ UNCHANGED requests
          ELSE IF name_validators(name) # "none"
          THEN answered("permissions.create", 200, TRUE, name_validators(name))
                   /\ UNCHANGED requests
          ELSE IF \E p \in DOMAIN permissions : permissions[p] = name
          THEN answered("permissions.create", 200, TRUE,
                        "Permission name already exists.")
                   /\ UNCHANGED requests
          ELSE /\ requests' = [requests EXCEPT ![w] =
                      [route |-> "permissions.create", id |-> next_permission_id,
                       statements |->
                           <<[op |-> "insert", table |-> "permissions",
                              row |-> <<next_permission_id, name>>]>>,
                       flushed |-> 0]]
               /\ next_permission_id' = next_permission_id + 1
               /\ resp' = NoResponse
               /\ error' = "none"
               /\ UNCHANGED <<store, next_user_id, next_role_id, session>>

\* permissions.create up to its commit
begin_permissions_create(w, name) ==
    /\ requests[w] = Idle
    /\ next_permission_id <= Len(permissions_list) + MaxCreated
    /\ LET g == route_gate(create_permissions)
       IN IF g # Admitted
          THEN answered("permissions.create", g, FALSE, "none")
                   /\ UNCHANGED requests
          ELSE IF name_validators(name) # "none"
          THEN answered("permissions.create", 200, TRUE, name_validators(name))
                   /\ UNCHANGED requests
          ELSE IF \E p \in DOMAIN permissions : SqlEq(permissions[p], name)
          THEN answered("permissions.create", 200, TRUE,
                        "Permission name already exists.")
                   /\ UNCHANGED requests
          ELSE /\ requests' = [requests EXCEPT ![w] =
                      [route |-> "permissions.create", id |-> next_permission_id,
                       statements |->
                           <<[op |-> "insert", table |-> "permissions",
                              row |-> <<next_permission_id, name>>]>>,
                       flushed |-> 0]]
               /\ next_permission_id' = next_permission_id + 1
               /\ resp' = NoResponse
               /\ error' = "none"
               /\ UNCHANGED <<store, next_user_id, next_role_id, session>>

\* permissions.edit up to its commit
begin_permissions_edit(w, id, name) ==
    /\ requests[w] = Idle
    /\ LET g == route_gate(edit_permissions)
       IN IF g # Admitted
          THEN answered("permissions.edit", g, FALSE, "none")
                   /\ UNCHANGED requests
          ELSE IF id \notin DOMAIN permissions
          THEN answered("permissions.edit", 302, TRUE, "Permission not found.")
                   /\ UNCHANGED requests
          ELSE IF name_validators(name) # "none"
          THEN answered("permissions.edit", 200, TRUE, name_validators(name))
                   /\ UNCHANGED requests
          ELSE IF \E p \in DOMAIN permissions \ {id} : SqlEq(permissions[p], name)
          THEN answered("permissions.edit", 200, TRUE,
                        "Permission name already exists.")
                   /\ UNCHANGED requests
          ELSE called(w, "permissions.edit", id,
                      rename_statement("permissions", id, permissions[id], name))

\* users.delete up to its commit: the rows of the user's roles are loaded
\* and deleted ahead of the user.
begin_users_delete(w, id) ==
    /\ requests[w] = Idle
    /\ LET g == route_gate(delete_users)
           held == ordered(user_roles(id))
       IN IF g # Admitted
          THEN answered("users.delete", g, FALSE, "none") /\ UNCHANGED requests
          ELSE IF id \notin DOMAIN users
          THEN answered("users.delete", 302, TRUE, "User not found.")
                   /\ UNCHANGED requests
          ELSE called(w, "users.delete", id,
              delete_statements("user_has_roles",
                                        [i \in DOMAIN held |-> <<id, held[i]>>])
                          \o <<[op |-> "delete", table |-> "users", row |-> <<id>>]>>)

\* roles.delete deleting whatever the id names, without looking it up.
begin_roles_delete_NoLookup(w, id) ==
    /\ requests[w] = Idle
    /\ LET g == route_gate(delete_roles)
       IN IF g # Admitted
          THEN answered("roles.delete", g, FALSE, "none") /\ UNCHANGED requests
          ELSE called(w, "roles.delete", id,
                      <<[op |-> "delete", table |-> "roles", row |-> <<id>>]>>)

\* roles.delete up to its commit: the rows of the role's users and of its
\* permissions are loaded and deleted ahead of the role.
begin_roles_delete(w, id) ==
    /\ requests[w] = Idle
    /\ LET g == route_gate(delete_roles)
           members == ordered({u \in DOMAIN users : BagIn(<<u, id>>, user_has_roles)})
           held == ordered(role_permissions(id))
       IN IF g # Admitted
          THEN answered("roles.delete", g, FALSE, "none") /\ UNCHANGED requests
          ELSE IF id \notin DOMAIN roles
          THEN answered("roles.delete", 302, TRUE, "Role not found.")
                   /\ UNCHANGED requests
          ELSE called(w, "roles.delete", id,
              delete_statements("user_has_roles",
                                        [i \in DOMAIN members |-> <<members[i], id>>])
                          \o delete_statements("role_has_permissions",
                                               [i \in DOMAIN held |-> <<id, held[i]>>])
                          \o <<[op |-> "delete", table |-> "roles", row |-> <<id>>]>>)

\* permissions.delete up to its commit: the rows of the permission's roles
\* are loaded and deleted ahead of the permission.
begin_permissions_delete(w, id) ==
    /\ requests[w] = Idle
    /\ LET g == route_gate(delete_permissions)
           holders == ordered({r \in DOMAIN roles : BagIn(<<r, id>>, role_has_permissions)})
       IN IF g # Admitted
          THEN answered("permissions.delete", g, FALSE, "none")
                   /\ UNCHANGED requests
          ELSE IF id \notin DOMAIN permissions
          THEN answered("permissions.delete", 302, TRUE, "Permission not found.")
                   /\ UNCHANGED requests
          ELSE called(w, "permissions.delete", id,
              delete_statements("role_has_permissions",
                                        [i \in DOMAIN holders |-> <<holders[i], id>>])
                          \o <<[op |-> "delete", table |-> "permissions",
                                 row |-> <<id>>]>>)

\* ------------------------------------------------------------ the system
Init ==
    /\ users = <<>>
    /\ roles = <<>>
    /\ permissions = <<>>
    /\ next_user_id = 1
    /\ next_role_id = 1
    /\ next_permission_id = 1
    /\ user_has_roles = EmptyBag
    /\ role_has_permissions = EmptyBag
    /\ session = 0
    /\ resp = NoResponse
    /\ error = "none"
    /\ requests = [w \in Workers |-> Idle]

\* The application: the management commands, the session routes, the gated
\* routes and the role assignments of an administrative caller.
Next ==
    \/ \E rt \in GateRoutes : gated_request(rt)
    \/ \E email \in EmailInputs : register(email)
    \/ \E email \in EmailInputs, password_ok \in BOOLEAN : login(email, password_ok)
    \/ logout
    \/ seed_permissions
    \/ seed_roles
    \/ \E email \in EmailInputs : create_admin(email)
    \/ \E u \in 1..MaxUsers, r \in 1..MaxRoles : assign_role(u, r)
    \/ \E u \in 1..MaxUsers, r \in 1..MaxRoles : remove_role(u, r)
    \/ \E id \in 1..MaxUsers : users_delete(id)

Spec == Init /\ [][Next]_vars

\* The model layer: stores built name by name and pair by pair, over which
\* the evaluator methods are asked.
NextEval ==
    \/ \E email \in EmailInputs : register(email)
    \/ \E name \in RoleNameInputs : seed_role(name)
    \/ \E name \in PermNameInputs : seed_permission(name)
    \/ \E u \in 1..MaxUsers, r \in 1..MaxRoles : assign_role(u, r)
    \/ \E u \in 1..MaxUsers, r \in 1..MaxRoles : remove_role(u, r)
    \/ \E r \in 1..MaxRoles, p \in 1..MaxPerms : give_permission_to(r, p)
    \/ \E r \in 1..MaxRoles, p \in 1..MaxPerms : revoke_permission_to(r, p)

SpecEval == Init /\ [][NextEval]_vars

\* The membership operations of the three models, each followed by its
\* commit, over stores built name by name.
NextMembership ==
    \/ \E email \in EmailInputs : register(email)
    \/ \E name \in RoleNameInputs : seed_role(name)
    \/ \E name \in PermNameInputs : seed_permission(name)
    \/ \E u \in 1..MaxUsers, r \in 1..MaxRoles : assign_role(u, r)
    \/ \E u \in 1..MaxUsers, r \in 1..MaxRoles : remove_role(u, r)
    \/ \E r \in 1..MaxRoles, p \in 1..MaxPerms : give_permission_to(r, p)
    \/ \E r \in 1..MaxRoles, p \in 1..MaxPerms : revoke_permission_to(r, p)
    \/ \E r \in 1..MaxRoles, p \in 1..MaxPerms : assign_to_role(p, r)
    \/ \E r \in 1..MaxRoles, p \in 1..MaxPerms : remove_from_role(p, r)

SpecMembership == Init /\ [][NextMembership]_vars

\* The membership operations called side by side: a user, a role and two
\* permissions are stored, each worker calls a method in its own session
\* and commits.
NextPairs ==
    \/ register(<<"a","@","x">>)
    \/ seed_role(Admin)
    \/ \E name \in {view_users, edit_users} : seed_permission(name)
    \/ \E w \in Workers, u \in 1..MaxUsers, r \in 1..MaxRoles :
           begin_assign_role(w, u, r)
    \/ \E w \in Workers, u \in 1..MaxUsers, r \in 1..MaxRoles :
           begin_remove_role(w, u, r)
    \/ \E w \in Workers, r \in 1..MaxRoles, p \in 1..MaxPerms :
           begin_give_permission_to(w, r, p)
    \/ \E w \in Workers, r \in 1..MaxRoles, p \in 1..MaxPerms :
           begin_revoke_permission_to(w, r, p)
    \/ \E w \in Workers, r \in 1..MaxRoles, p \in 1..MaxPerms :
           begin_assign_to_role(w, p, r)
    \/ \E w \in Workers, r \in 1..MaxRoles, p \in 1..MaxPerms :
           begin_remove_from_role(w, p, r)
    \/ \E w \in Workers, r \in 1..MaxRoles, perms \in Selections :
           begin_sync_permissions(w, r, perms)
    \/ \E w \in Workers : commit(w)

SpecPairs == Init /\ [][NextPairs]_vars

\* Deletes served side by side with edits: the store is seeded, the
\* administrator logs in, one worker takes the requests that edit a user or
\* the User role and the other the requests that delete a user, a role or
\* the seeded permission 'view users', each up to its commit.
NextCascade ==
    \/ seed_permissions
    \/ seed_roles
    \/ create_admin(<<"a","@","x">>)
    \/ \E password_ok \in BOOLEAN : login(<<"a","@","x">>, password_ok)
    \/ \E id \in {r \in DOMAIN roles : roles[r] = User}, perms \in Ticked :
           begin_roles_edit("w1", id, roles[id], perms)
    \/ \E id \in DOMAIN users, role_ids \in Ticked :
           begin_users_edit("w1", id, users[id], role_ids)
    \/ \E id \in 1..MaxUsers : begin_users_delete("w2", id)
    \/ \E id \in 1..MaxRoles : begin_roles_delete("w2", id)
    \/ \E id \in {p \in SelectableIds \cap DOMAIN permissions :
                       permissions[p] = view_users} :
           begin_permissions_delete("w2", id)
    \/ \E w \in Workers : commit(w)

SpecCascade == Init /\ [][NextCascade]_vars

\* Replacements in progress: the store is seeded, the administrator logs in,
\* and each worker takes an edit of a role or of a user, whose statements
\* are flushed one by one ahead of its commit.
NextAtomic ==
    \/ seed_permissions
    \/ seed_roles
    \/ create_admin(<<"a","@","x">>)
    \/ \E password_ok \in BOOLEAN : login(<<"a","@","x">>, password_ok)
    \/ \E w \in Workers, id \in {r \in DOMAIN roles : roles[r] = User},
             perms \in Ticked :
           begin_roles_edit(w, id, roles[id], perms)
    \/ \E w \in Workers, id \in DOMAIN users, role_ids \in Ticked :
           begin_users_edit(w, id, users[id], role_ids)
    \/ \E w \in Workers : flush_next(w)
    \/ \E w \in Workers : commit(w)

SpecAtomic == Init /\ [][NextAtomic]_vars

\* Names given side by side: the store is seeded, the administrator logs
\* in, and each worker takes a request that creates a role or a permission
\* or renames the User role or the permission 'view users', up to its commit.
NextNames ==
    \/ seed_permissions
    \/ seed_roles
    \/ create_admin(<<"a","@","x">>)
    \/ \E password_ok \in BOOLEAN : login(<<"a","@","x">>, password_ok)
    \/ \E w \in Workers, name \in RoleFormNames :
           begin_roles_create(w, name, <<>>)
    \/ \E w \in Workers, id \in {r \in DOMAIN roles : roles[r] = User},
             name \in RoleFormNames :
           begin_roles_edit(w, id, name, ordered(role_permissions(id)))
    \/ \E w \in Workers, name \in PermFormNames : begin_permissions_create(w, name)
    \/ \E w \in Workers, name \in PermFormNames,
             id \in {p \in SelectableIds \cap DOMAIN permissions :
                        permissions[p] = view_users} :
           begin_permissions_edit(w, id, name)
    \/ \E w \in Workers : commit(w)

SpecNames == Init /\ [][NextNames]_vars

\* Names in another letter case: the store is seeded, the administrator
\* logs in and creates permissions or renames seeded ones, to the name
\* 'view users' in capitals and to a name that is new.
NextLetterCase ==
    \/ seed_permissions
    \/ seed_roles
    \/ create_admin(<<"a","@","x">>)
    \/ \E password_ok \in BOOLEAN : login(<<"a","@","x">>, password_ok)
    \/ \E name \in {VIEW_USERS, export_users} : begin_permissions_create("w1", name)
    \/ \E id \in SelectableIds, name \in {VIEW_USERS, export_users} :
           begin_permissions_edit("w1", id, name)
    \/ commit("w1")

SpecLetterCase == Init /\ [][NextLetterCase]_vars

\* The evaluator asked about names it may not know: a user, two roles and
\* two permissions are stored and paired, and the six methods are asked
\* about a name that is stored, a name that no row has, and None.
NextAsked ==
    \/ register(<<"a","@","x">>)
    \/ \E name \in {Admin, User} : seed_role(name)
    \/ \E name \in {view_users, edit_users} : seed_permission(name)
    \/ \E u \in 1..MaxUsers, r \in 1..MaxRoles : assign_role(u, r)
    \/ \E r \in 1..MaxRoles, p \in 1..MaxPerms : give_permission_to(r, p)
    \/ \E u \in 1..MaxUsers, name \in {Admin, Editor, None},
          method \in {"has_role", "has_any_role", "has_all_roles"} :
           evaluate(method, u, <<name>>)
    \/ \E u \in 1..MaxUsers, name \in {view_users, delete_users, None},
          method \in {"has_permission", "has_any_permission", "has_all_permissions"} :
           evaluate(method, u, <<name>>)

SpecAsked == Init /\ [][NextAsked]_vars

\* Decisions over a changing store: the store is seeded, the administrator
\* is created and a user registers; roles are assigned and removed, seeded
\* permissions are revoked from roles and given back, and the logged-in
\* administrator deletes roles.
NextDecisions ==
    \/ seed_permissions
    \/ seed_roles
    \/ create_admin(<<"a","@","x">>)
    \/ register(<<"B","@","x">>)
    \/ \E password_ok \in BOOLEAN : login(<<"a","@","x">>, password_ok)
    \/ \E u \in 1..MaxUsers, r \in 1..MaxRoles : assign_role(u, r)
    \/ \E u \in 1..MaxUsers, r \in 1..MaxRoles : remove_role(u, r)
    \/ \E r \in 1..MaxRoles, p \in SelectableIds : give_permission_to(r, p)
    \/ \E r \in 1..MaxRoles, p \in SelectableIds : revoke_permission_to(r, p)
    \/ \E id \in 1..MaxRoles : roles_delete(id)

SpecDecisions == Init /\ [][NextDecisions]_vars

\* Calls that fail part-way: the administrator is created before or after
\* the roles are seeded; once logged in, one worker takes requests that
\* create the role Editor or a user with the ticked permissions or roles,
\* flushed ahead of the commit, while the other deletes seeded permissions
\* or the User role.
NextAllOrNothing ==
    \/ seed_permissions
    \/ seed_roles
    \/ create_admin(<<"a","@","x">>)
    \/ \E password_ok \in BOOLEAN : login(<<"a","@","x">>, password_ok)
    \/ \E perms \in Ticked : begin_roles_create("w1", Editor, perms)
    \/ \E role_ids \in Ticked : begin_users_create("w1", <<"B","@","x">>, role_ids)
    \/ \E id \in SelectableIds : begin_permissions_delete("w2", id)
    \/ \E id \in {r \in SelectableIds \cap DOMAIN roles : roles[r] = User} :
           begin_roles_delete("w2", id)
    \/ \E w \in Workers : flush_next(w)
    \/ \E w \in Workers : commit(w)

SpecAllOrNothing == Init /\ [][NextAllOrNothing]_vars

\* Requests by id: the store is seeded, the administrator logs in and asks
\* for users, roles and permissions by id to be edited as they are or
\* deleted, among them ids that name no row or no row any more.
NextNotFound ==
    \/ seed_permissions
    \/ seed_roles
    \/ create_admin(<<"a","@","x">>)
    \/ \E password_ok \in BOOLEAN : login(<<"a","@","x">>, password_ok)
    \/ \E id \in RequestedIds :
           begin_users_edit("w1", id, <<"a","@","x">>, ordered(user_roles(id)))
    \/ \E id \in RequestedIds :
           begin_roles_edit("w1", id, User, ordered(role_permissions(id)))
    \/ \E id \in RequestedIds : begin_permissions_edit("w1", id, view_users)
    \/ \E id \in RequestedIds : begin_users_delete("w1", id)
    \/ \E id \in RequestedIds : begin_roles_delete("w1", id)
    \/ \E id \in RequestedIds : begin_permissions_delete("w1", id)
    \/ commit("w1")

SpecNotFound == Init /\ [][NextNotFound]_vars

\* The membership operations of Role, User and Permission over a store
\* with two users, the seeded roles and the seeded permissions.
NextLocal ==
    \/ \E email \in EmailInputs : register(email)
    \/ \E name \in {Admin, User} : seed_role(name)
    \/ \E name \in {view_users, edit_users} : seed_permission(name)
    \/ \E u \in 1..MaxUsers, r \in 1..MaxRoles : assign_role(u, r)
    \/ \E u \in 1..MaxUsers, r \in 1..MaxRoles : remove_role(u, r)
    \/ \E r \in 1..MaxRoles, p \in 1..MaxPerms : give_permission_to(r, p)
    \/ \E r \in 1..MaxRoles, p \in 1..MaxPerms : revoke_permission_to(r, p)
    \/ \E r \in 1..MaxRoles, p \in 1..MaxPerms : assign_to_role(p, r)
    \/ \E r \in 1..MaxRoles, p \in 1..MaxPerms : remove_from_role(p, r)
    \/ \E r \in 1..MaxRoles, perms \in Selections : Role_sync_permissions(r, perms)

SpecLocal == Init /\ [][NextLocal]_vars

\* Replacing memberships: the management commands seed the store and create
\* the administrator, who logs in and edits roles and users.
NextReplace ==
    \/ seed_permissions
    \/ seed_roles
    \/ \E email \in EmailInputs : create_admin(email)
    \/ \E email \in EmailInputs, password_ok \in BOOLEAN : login(email, password_ok)
    \/ \E id \in 1..MaxRoles, name \in {Admin, User}, perms \in Selections :
           roles_edit(id, name, perms)
    \/ \E id \in 1..MaxUsers, email \in EmailInputs, role_ids \in Selections :
           users_edit(id, email, role_ids)

SpecReplace == Init /\ [][NextReplace]_vars

\* Deleting entities: the seeded store and the administrators deleting
\* roles, permissions and users.
NextDelete ==
    \/ seed_permissions
    \/ seed_roles
    \/ \E email \in EmailInputs : create_admin(email)
    \/ \E email \in EmailInputs, password_ok \in BOOLEAN : login(email, password_ok)
    \/ \E id \in 1..MaxRoles : roles_delete(id)
    \/ \E id \in 1..MaxPerms : permissions_delete(id)
    \/ \E id \in 1..MaxUsers : users_delete(id)

SpecDelete == Init /\ [][NextDelete]_vars

\* The users of the store: people register, the administrator is created
\* by the management command and creates and edits users.
NextUsers ==
    \/ seed_permissions
    \/ seed_roles
    \/ \E email \in EmailInputs : create_admin(email)
    \/ \E email \in EmailInputs : register(email)
    \/ \E email \in EmailInputs, password_ok \in BOOLEAN : login(email, password_ok)
    \/ logout
    \/ \E email \in EmailInputs, role_ids \in Selections :
           users_create(email, role_ids)
    \/ \E id \in 1..MaxUsers, email \in EmailInputs, role_ids \in Selections :
           users_edit(id, email, role_ids)

SpecUsers == Init /\ [][NextUsers]_vars

\* ======================================================== properties
GateRouteNames == {rt.route : rt \in GateRoutes}
Refused(r) == r.status \in {401, 403}

\* Two names are equal ignoring letter case.
EqualIgnoringCase(a, b) == LowerName(a) = LowerName(b)

\* C1: a gate reached by an unauthenticated caller answers 401
\* (Unauthenticated), and no unauthenticated caller of any gated route is
\* ever answered 403 (Forbidden), whatever the store holds.
C1_UnauthenticatedNeverForbidden ==
    [][ (resp' # NoResponse /\ ~is_authenticated(current_user))
            => /\ resp'.status # 403
               /\ resp'.route \in GateRouteNames => resp'.status = 401 ]_vars

\* C1 witness: an anonymous caller was refused with 401 by the all-roles gate
\* while a user holding no role exists in the store.
C1_Witness ==
    /\ resp.route = "test_all_roles" /\ resp.status = 401
    /\ ~is_authenticated(current_user)
    /\ DOMAIN users # {}

\* C2: a request refused by a gate (401 or 403) never reaches the wrapped
\* operation and leaves users, roles, permissions and both membership
\* relations as they were before the request.
C2_RefusalLeavesStore ==
    [][ Refused(resp') => (~resp'.ran /\ store' = store) ]_vars

\* C2 witness: an authenticated caller without 'delete users' was refused by
\* the gate of users.delete while a user that could be deleted exists.
C2_Witness ==
    /\ resp.route = "users.delete" /\ resp.status = 403
    /\ is_authenticated(current_user)
    /\ DOMAIN users # {}

\* What each gate's policy demands of caller u, stated on single names.
PolicyHolds(rt, u) ==
    CASE rt.gate = "role_required" ->
             \E i \in DOMAIN rt.names : has_role(u, rt.names[i])
      [] rt.gate = "permission_required" ->
             \E i \in DOMAIN rt.names : has_permission(u, rt.names[i])
      [] rt.gate = "all_roles_required" ->
             \A i \in DOMAIN rt.names : has_role(u, rt.names[i])
      [] rt.gate = "all_permissions_required" ->
             \A i \in DOMAIN rt.names : has_permission(u, rt.names[i])

\* C3: for an authenticated caller a gate calls the wrapped function (whose
\* 200 'success' answer is passed through) exactly when the policy of the gate
\* holds for the caller, and answers 403 otherwise; users.delete runs its view
\* exactly when the caller has 'delete users'.
C3_GateAdmitsIffPolicyHolds ==
    [][ is_authenticated(current_user) =>
          /\ \A rt \in GateRoutes :
                resp'.route = rt.route =>
                    IF PolicyHolds(rt, current_user)
                    THEN resp'.status = 200 /\ resp'.ran
                    ELSE resp'.status = 403 /\ ~resp'.ran
          /\ resp'.route = "users.delete" =>
                    IF has_permission(current_user, delete_users)
                    THEN resp'.status = 302 /\ resp'.ran
                    ELSE resp'.status = 403 /\ ~resp'.ran ]_vars

\* C3 witness: the all-roles gate admitted a caller holding both roles.
C3_Witness ==
    /\ resp.route = "test_all_roles" /\ resp.status = 200 /\ resp.ran
    /\ is_authenticated(current_user)

\* C4: has_permission(u, p) is true exactly when some permission returned by
\* get_permissions(u) has a name equal to p ignoring letter case.
C4_HasPermissionIffEffective ==
    \A u \in DOMAIN users : \A p \in PermQueryNames :
        has_permission(u, p) <=>
            \E i \in DOMAIN get_permissions(u) :
                EqualIgnoringCase(permissions[get_permissions(u)[i]], p)

\* C4 witness: a user has 'VIEW USERS' through a permission stored as
\* 'view users'.
C4_Witness ==
    \E u \in DOMAIN users :
        /\ has_permission(u, VIEW_USERS)
        /\ \E i \in DOMAIN get_permissions(u) :
               permissions[get_permissions(u)[i]] = view_users

\* C5: get_permissions(u) holds exactly the permissions granted to at least
\* one role u holds, each of them once.
C5_EffectivePermissionsAreUnion ==
    \A u \in DOMAIN users :
        LET gp == get_permissions(u)
        IN /\ Range(gp) =
                {p \in DOMAIN permissions :
                    \E r \in DOMAIN roles :
                        /\ BagIn(<<u, r>>, user_has_roles)
                        /\ BagIn(<<r, p>>, role_has_permissions)}
           /\ \A i, j \in DOMAIN gp : i # j => gp[i] # gp[j]

\* C5 witness: a user holds two roles that grant the same permission.
C5_Witness ==
    \E u \in DOMAIN users : \E r1, r2 \in user_roles(u) : \E p \in DOMAIN permissions :
        /\ r1 # r2
        /\ BagIn(<<r1, p>>, role_has_permissions)
        /\ BagIn(<<r2, p>>, role_has_permissions)
        /\ Len(get_permissions(u)) >= 1

\* C6: has_role(u, X) is true for every X equal, ignoring letter case, to the
\* stored name of a role u holds, and false for every X that matches no held
\* role ignoring case.
C6_HasRoleIgnoresCase ==
    \A u \in DOMAIN users : \A X \in RoleQueryNames :
        has_role(u, X) <=>
            \E r \in DOMAIN roles :
                BagIn(<<u, r>>, user_has_roles) /\ EqualIgnoringCase(roles[r], X)

\* C6 witness: a user holding the role stored as 'Admin' is asked about
\* 'ADMIN' and 'admin'.
C6_Witness ==
    \E u \in DOMAIN users : \E r \in user_roles(u) :
        /\ roles[r] = Admin
        /\ has_role(u, ADMIN)
        /\ has_role(u, admin)
        /\ ~has_role(u, User)

\* C7: has_any_role(u, L) is true exactly when has_role(u, n) is true for
\* some n in L; it is false for the empty list.
C7_HasAnyRoleIffSomeHasRole ==
    \A u \in DOMAIN users :
        /\ \A L \in Lists(RoleQueryNames) :
               has_any_role(u, L) <=> \E i \in DOMAIN L : has_role(u, L[i])
        /\ ~has_any_role(u, <<>>)

\* C7 witness: a user holding the role stored as 'Admin' passes
\* has_any_role('Editor', 'admin').
C7_Witness ==
    \E u \in DOMAIN users : \E r \in user_roles(u) :
        /\ roles[r] = Admin
        /\ has_any_role(u, <<Editor, admin>>)

\* C8: has_all_roles(u, L) is true exactly when has_role(u, n) is true for
\* every n in L; it is true for the empty list for every user.
C8_HasAllRolesIffEveryHasRole ==
    \A u \in DOMAIN users :
        /\ \A L \in Lists(RoleQueryNames) :
               has_all_roles(u, L) <=> \A i \in DOMAIN L : has_role(u, L[i])
        /\ has_all_roles(u, <<>>)

\* C8 witness: a user without any role, for whom the empty list holds and a
\* one-name list does not.
C8_Witness ==
    \E u \in DOMAIN users :
        /\ user_roles(u) = {}
        /\ DOMAIN roles # {}
        /\ has_all_roles(u, <<>>)
        /\ ~has_all_roles(u, <<Admin>>)

\* C9: has_any_permission(u, L) is true exactly when has_permission(u, n) is
\* true for some n in L; it is false for the empty list.
C9_HasAnyPermissionIffSomeHasPermission ==
    \A u \in DOMAIN users :
        /\ \A L \in Lists(PermQueryNames) :
               has_any_permission(u, L) <=> \E i \in DOMAIN L : has_permission(u, L[i])
        /\ ~has_any_permission(u, <<>>)

\* C9 witness: a user with the permission stored as 'view users' passes
\* has_any_permission('edit users', 'VIEW USERS') without having 'edit users'.
C9_Witness ==
    \E u \in DOMAIN users :
        /\ has_any_permission(u, <<edit_users, VIEW_USERS>>)
        /\ ~has_permission(u, edit_users)
        /\ \E r \in user_roles(u) : \E p \in role_permissions(r) :
               permissions[p] = view_users

\* C10: has_all_permissions(u, L) is true exactly when has_permission(u, n)
\* is true for every n in L; it is true for the empty list.
C10_HasAllPermissionsIffEveryHasPermission ==
    \A u \in DOMAIN users :
        /\ \A L \in Lists(PermQueryNames) :
               has_all_permissions(u, L) <=> \A i \in DOMAIN L : has_permission(u, L[i])
        /\ has_all_permissions(u, <<>>)

\* C10 witness: a user whose roles grant 'view users' and 'edit users' passes
\* has_all_permissions('VIEW USERS', 'edit users').
C10_Witness ==
    \E u \in DOMAIN users :
        /\ has_all_permissions(u, <<VIEW_USERS, edit_users>>)
        /\ \E r \in user_roles(u) : \E p \in role_permissions(r) :
               permissions[p] = view_users

\* One copy of a membership pair.
Pair(row) == SetToBag({row})

\* C11: adding a membership is idempotent in both relations. A call of
\* assign_role(u, r), give_permission_to(r, p) or assign_to_role(p, r) raises
\* no error and leaves the pair stored, and a call made when the pair is
\* stored already changes nothing; so two calls leave what one call leaves.
C11_AddIsIdempotent ==
    [][ /\ \A u \in 1..MaxUsers, r \in 1..MaxRoles :
              assign_role(u, r) =>
                  /\ error' = "none"
                  /\ BagIn(<<u, r>>, user_has_roles')
                  /\ BagIn(<<u, r>>, user_has_roles) => store' = store
        /\ \A r \in 1..MaxRoles, p \in 1..MaxPerms :
              (give_permission_to(r, p) \/ assign_to_role(p, r)) =>
                  /\ error' = "none"
                  /\ BagIn(<<r, p>>, role_has_permissions')
                  /\ BagIn(<<r, p>>, role_has_permissions) => store' = store
      ]_vars

\* C11 witness: a pair is stored in each relation after its add operation,
\* so that a second call finds it.
C11_Witness ==
    /\ \E u \in DOMAIN users, r \in DOMAIN roles : BagIn(<<u, r>>, user_has_roles)
    /\ \E r \in DOMAIN roles, p \in DOMAIN permissions :
           BagIn(<<r, p>>, role_has_permissions)
    /\ error = "none"

\* C12: removing a membership that is not stored is a no-op. A call of
\* remove_role(u, r), revoke_permission_to(r, p) or remove_from_role(p, r)
\* raises no error; when the pair is not stored both relations stay as they
\* are, and when it is stored exactly that pair is deleted.
C12_RemoveAbsentIsNoOp ==
    [][ /\ \A u \in 1..MaxUsers, r \in 1..MaxRoles :
              remove_role(u, r) =>
                  /\ error' = "none"
                  /\ role_has_permissions' = role_has_permissions
                  /\ user_has_roles' =
                         IF BagIn(<<u, r>>, user_has_roles)
                         THEN user_has_roles (-) Pair(<<u, r>>)
                         ELSE user_has_roles
        /\ \A r \in 1..MaxRoles, p \in 1..MaxPerms :
              (revoke_permission_to(r, p) \/ remove_from_role(p, r)) =>
                  /\ error' = "none"
                  /\ user_has_roles' = user_has_roles
                  /\ role_has_permissions' =
                         IF BagIn(<<r, p>>, role_has_permissions)
                         THEN role_has_permissions (-) Pair(<<r, p>>)
                         ELSE role_has_permissions
      ]_vars

\* C12 witness: a user holds one role and not another one that exists, and
\* a role holds one permission and not another one that exists.
C12_Witness ==
    /\ \E u \in DOMAIN users, r1, r2 \in DOMAIN roles :
           BagIn(<<u, r1>>, user_has_roles) /\ ~BagIn(<<u, r2>>, user_has_roles)
    /\ \E r \in DOMAIN roles, p1, p2 \in DOMAIN permissions :
           /\ BagIn(<<r, p1>>, role_has_permissions)
           /\ ~BagIn(<<r, p2>>, role_has_permissions)


\* C13: replace semantics. After an accepted roles.edit the permission set
\* of the edited role is exactly the set of the submitted permissions,
\* whatever the role held before and also when nothing was submitted; after
\* an accepted users.edit the edited user holds exactly the submitted roles
\* that exist. (An accepted edit stores the submitted name, so the steps of
\* an edit of id are those of the edit with the name stored afterwards.)
C13_ReplaceLeavesExactlyNew ==
    [][ (resp'.ran /\ resp'.status = 302 /\ error' = "none")
            => /\ resp'.route = "roles.edit"
                    => \A id \in DOMAIN roles, perms \in Selections :
                           roles_edit(id, roles'[id], perms)
                               => role_permissions(id)' = Range(perms)
               /\ resp'.route = "users.edit"
                    => \A id \in DOMAIN users, role_ids \in Selections :
                           users_edit(id, users'[id], role_ids)
                               => user_roles(id)' = Range(role_ids) \cap DOMAIN roles ]_vars

\* C13 witness: roles.edit was accepted and left the Admin role, seeded with
\* every permission, without any; the administrator still holds the role.
C13_Witness ==
    /\ resp = [route |-> "roles.edit", status |-> 302, ran |-> TRUE]
    /\ error = "none"
    /\ 1 \in DOMAIN roles /\ role_permissions(1) = {}
    /\ \E u \in DOMAIN users : 1 \in user_roles(u)


\* The rows of a join table that name id in a column.
RowsOf(table, column, id) == {row \in BagToSet(table) : row[column] = id}

\* C14: cascade on role delete. After roles.delete deleted role id, no row
\* of the user-role table and no row of the role-permission table names the
\* role, and the users and the permissions are those stored before.
C14_RoleDeleteCascades ==
    [][ (resp'.route = "roles.delete" /\ resp'.ran /\ error' = "none")
            => \A id \in DOMAIN roles :
                   roles_delete(id)
                       => /\ id \notin DOMAIN roles'
                          /\ RowsOf(user_has_roles, 2, id)' = {}
                          /\ RowsOf(role_has_permissions, 1, id)' = {}
                          /\ users' = users
                          /\ permissions' = permissions ]_vars

\* C14 witness: the Admin role, which the administrator held and which was
\* granted every permission, was deleted; users and permissions are stored.
C14_Witness ==
    /\ resp = [route |-> "roles.delete", status |-> 302, ran |-> TRUE]
    /\ error = "none"
    /\ next_role_id > 1 /\ 1 \notin DOMAIN roles
    /\ DOMAIN users # {} /\ DOMAIN permissions # {}

\* C15: cascade on permission delete. After permissions.delete deleted
\* permission id, no row of the role-permission table names it, so no role
\* holds it and no user reaches it through a role; the roles, their
\* memberships and their grants of other permissions are those stored before.
C15_PermissionDeleteCascades ==
    [][ (resp'.route = "permissions.delete" /\ resp'.ran /\ error' = "none")
            => \A id \in DOMAIN permissions :
                   permissions_delete(id)
                       => /\ id \notin DOMAIN permissions'
                          /\ RowsOf(role_has_permissions, 2, id)' = {}
                          /\ \A u \in DOMAIN users', r \in DOMAIN roles' :
                                 ~(/\ BagIn(<<u, r>>, user_has_roles')
                                   /\ BagIn(<<r, id>>, role_has_permissions'))
                          /\ roles' = roles
                          /\ user_has_roles' = user_has_roles
                          /\ \A r \in DOMAIN roles :
                                 role_permissions(r)' = role_permissions(r) \ {id} ]_vars

\* C15 witness: 'view users', granted to both seeded roles, was deleted while
\* the administrator holds the Admin role, which keeps its other grants.
C15_Witness ==
    /\ resp = [route |-> "permissions.delete", status |-> 302, ran |-> TRUE]
    /\ error = "none"
    /\ next_permission_id > 1 /\ 1 \notin DOMAIN permissions
    /\ {1, 2} \subseteq DOMAIN roles
    /\ \E u \in DOMAIN users : 1 \in user_roles(u)
    /\ 2 \in role_permissions(1)


\* C20: emails are lower-cased when they are written and are unique. After
\* every step of register, users.create, users.edit and create_admin every
\* stored email is in lower case and no two users have the same email; a
\* registration, and an edit by an admitted caller, whose email equals the
\* email of another user ignoring letter case is answered
\* "Email already registered." and leaves the store as it was.
C20_EmailsLowercaseAndUnique ==
    [][ /\ \A u \in DOMAIN users' : LowerName(users'[u]) = users'[u]
        /\ \A u, v \in DOMAIN users' : u # v => users'[u] # users'[v]
        /\ \A email \in EmailInputs :
               ( /\ register(email)
                 /\ ~is_authenticated(current_user)
                 /\ \E u \in DOMAIN users : EqualIgnoringCase(users[u], email) )
                   => (error' = "Email already registered." /\ store' = store)
        /\ \A id \in DOMAIN users, email \in EmailInputs, role_ids \in Selections :
               ( /\ users_edit(id, email, role_ids)
                 /\ resp'.ran
                 /\ \E u \in DOMAIN users \ {id} : EqualIgnoringCase(users[u], email) )
                   => (error' = "Email already registered." /\ store' = store) ]_vars

\* C20 witness: the only stored user has the email b@x, written from B@x,
\* and an anonymous registration, which can only have typed B@x, was answered
\* that the email is registered.
C20_Witness ==
    /\ error = "Email already registered."
    /\ session = 0
    /\ DOMAIN users = {1}
    /\ users[1] = LowerName(<<"B","@","x">>)
    /\ users[1] # <<"B","@","x">>


Written(w, op, table) ==
    {requests[w].statements[i].row[2] :
        i \in {j \in DOMAIN requests[w].statements :
                  /\ requests[w].statements[j].op = op
                  /\ requests[w].statements[j].table = table}}

\* The request of worker w to a route about id is committed by this step.
Commits(w, route, id) ==
    /\ requests[w].route = route /\ requests[w].id = id
    /\ requests'[w] = Idle
    /\ resp' = [route |-> route, status |-> 302, ran |-> TRUE]

InUse(table, name, id) ==
    \E x \in DOMAIN table \ {id} : SqlEq(table[x], name)

\* The request ends with the message, writes nothing and leaves nothing to
\* a commit.
NameRefused(message) ==
    /\ error' = message
    /\ resp'.ran /\ resp'.status = 200
    /\ store' = store
    /\ requests' = requests

\* The statements of the request in flight for w that store a name in use.
DuplicateWrites(w) ==
    {i \in DOMAIN requests[w].statements :
        LET st == requests[w].statements[i]
        IN /\ st.table \in {"roles", "permissions"}
           /\ st.op \in {"insert", "update"}
           /\ InUse(Database[st.table], st.row[2], st.row[1])}

\* C19: a permitted request that creates a role or a permission under a
\* name in use, or renames one to a name in use by another of its kind, ends
\* with the message saying that the name already exists and the store is
\* unchanged; a request whose name was taken only while it was in flight is
\* refused at its commit by the unique index, again with the store
\* unchanged; and so after every step no two roles and no two permissions
\* share a name, whatever the order in which two requests begin and commit.
C19_DuplicateNameRejected ==
    [][ /\ \A r1, r2 \in DOMAIN roles' :
               r1 # r2 => ~SqlEq(roles'[r1], roles'[r2])
        /\ \A p1, p2 \in DOMAIN permissions' :
               p1 # p2 => ~SqlEq(permissions'[p1], permissions'[p2])
        /\ \A w \in {x \in Workers : requests[x] = Idle} :
               /\ \A name \in RoleFormNames :
                      /\ (  /\ InUse(roles, name, 0)
                            /\ route_gate(create_roles) = Admitted
                            /\ begin_roles_create(w, name, <<>>) )
                             => NameRefused("Role name already exists.")
                      /\ \A id \in DOMAIN roles :
                             ( /\ InUse(roles, name, id)
                               /\ route_gate(edit_roles) = Admitted
                               /\ begin_roles_edit(w, id, name,
                                                   ordered(role_permissions(id))) )
                                 => NameRefused("Role name already exists.")
               /\ \A name \in PermFormNames :
                      /\ (  /\ InUse(permissions, name, 0)
                            /\ route_gate(create_permissions) = Admitted
                            /\ begin_permissions_create(w, name) )
                             => NameRefused("Permission name already exists.")
                      /\ \A id \in SelectableIds \cap DOMAIN permissions :
                             ( /\ InUse(permissions, name, id)
                               /\ route_gate(edit_permissions) = Admitted
                               /\ begin_permissions_edit(w, id, name) )
                                 => NameRefused("Permission name already exists.")
        /\ \A w \in {x \in Workers : requests[x] # Idle} :
               (DuplicateWrites(w) # {} /\ commit(w))
                   => /\ error' = "IntegrityError"
                      /\ resp'.status = 500
                      /\ store' = store ]_vars

\* Two requests created the role Editor side by side: one is stored, the
\* other was refused at its commit.
C19_Witness ==
    /\ error = "IntegrityError"
    /\ resp = [route |-> "roles.create", status |-> 500, ran |-> TRUE]
    /\ Cardinality({r \in DOMAIN roles : roles[r] = Editor}) = 1
    /\ next_role_id = Len(<<Admin, User>>) + MaxCreated + 1

\* A permitted caller names an id that the table has no row for.
Missing(table, id, permission_name) ==
    /\ requests["w1"] = Idle
    /\ id \notin DOMAIN table
    /\ route_gate(permission_name) = Admitted

\* The request ends with the message and a redirect to the index, writes
\* nothing and leaves nothing to a commit.
NotFound(message) ==
    /\ error' = message
    /\ resp'.ran /\ resp'.status = 302
    /\ store' = store
    /\ requests' = requests

\* C21: an edit or a delete of a user, a role or a permission by an id that
\* names no row reports that the entity was not found and stops there: no
\* row of the three tables and no pair of the two join tables is created,
\* altered or removed, and nothing is left to be committed.
C21_MissingIdIsNotFound ==
    [][ \A id \in RequestedIds :
          /\ (  /\ Missing(users, id, edit_users)
                /\ begin_users_edit("w1", id, <<"a","@","x">>, ordered(user_roles(id))) )
                 => NotFound("User not found.")
          /\ (Missing(users, id, delete_users) /\ begin_users_delete("w1", id))
                 => NotFound("User not found.")
          /\ (  /\ Missing(roles, id, edit_roles)
                /\ begin_roles_edit("w1", id, User, ordered(role_permissions(id))) )
                 => NotFound("Role not found.")
          /\ (Missing(roles, id, delete_roles) /\ begin_roles_delete("w1", id))
                 => NotFound("Role not found.")
          /\ (  /\ Missing(permissions, id, edit_permissions)
                /\ begin_permissions_edit("w1", id, view_users) )
                 => NotFound("Permission not found.")
          /\ (  /\ Missing(permissions, id, delete_permissions)
                /\ begin_permissions_delete("w1", id) )
                 => NotFound("Permission not found.") ]_vars

\* The administrator asked for a role to be deleted that was deleted
\* before: the request answered that there is no such role.
C21_Witness ==
    /\ error = "Role not found."
    /\ resp = [route |-> "roles.delete", status |-> 302, ran |-> TRUE]
    /\ \E r \in DOMAIN roles : roles[r] = Admin
    /\ ~ \E r \in DOMAIN roles : roles[r] = User
    /\ next_role_id > 2

\* C22: a call that ends with an error leaves the committed store as it
\* was before the call, whatever it had flushed: create_admin that finds no
\* Admin role after it flushed the user, a roles.create or users.create
\* whose commit is refused after the row of the role or of the user was
\* flushed. The committed store changes only in the step that completes a
\* call without an error, never in a flush and never when a request begins.
C22_AllOrNothing ==
    [][ /\ error' # "none" => store' = store
        /\ store' # store
              => \A w \in Workers : requests'[w] \in {Idle, requests[w]} ]_vars

\* The commit of a roles.create was refused after the role had been flushed:
\* a permission ticked in the form was deleted in between, and no role
\* Editor is stored.
C22_Witness ==
    /\ error = "IntegrityError"
    /\ resp = [route |-> "roles.create", status |-> 500, ran |-> TRUE]
    /\ ~ \E r \in DOMAIN roles : roles[r] = Editor
    /\ \E p \in SelectableIds : p \notin DOMAIN permissions
    /\ next_role_id > Len(<<Admin, User>>) + 1

\* Some stored role in rs has a stored pair with a permission of the name.
Granting(rs, name) ==
    \E r \in rs \cap DOMAIN roles, p \in DOMAIN permissions :
        /\ BagIn(<<r, p>>, role_has_permissions)
        /\ SqlEq(permissions[p], name)

\* The roles the join table pairs the user with.
Held(u) == {r \in DOMAIN roles : BagIn(<<u, r>>, user_has_roles)}

\* C23: has_permission(u, p) is answered from the committed pairs of the
\* moment. It is false while no role of u grants p; it is true right after
\* u is assigned a role that grants p; and it is false again right after
\* that role is deleted, or p is revoked from it, when no other role of u
\* grants p, the deleted role being no role of u any more.
C23_DecisionFollowsMembership ==
    [][ \A u \in DOMAIN users, name \in {view_users, edit_users} :
          /\ ~Granting(Held(u), name) => ~has_permission(u, name)
          /\ \A r \in (1..MaxRoles) \cap DOMAIN roles :
                /\ (Granting({r}, name) /\ assign_role(u, r) /\ error' = "none")
                      => has_permission(u, name)'
                /\ (r \in Held(u) /\ ~Granting(Held(u) \ {r}, name) /\ roles_delete(r)
                        /\ r \notin DOMAIN roles')
                      => /\ ~has_permission(u, name)'
                         /\ r \notin user_roles(u)'
                         /\ ~BagIn(<<u, r>>, user_has_roles')
                /\ \A p \in SelectableIds \cap DOMAIN permissions :
                      ( /\ r \in Held(u) /\ ~Granting(Held(u) \ {r}, name)
                        /\ SqlEq(permissions[p], name)
                        /\ revoke_permission_to(r, p) /\ error' = "none" )
                          => ~has_permission(u, name)' ]_vars

\* The registered user holds the User role, from which 'view users' was
\* revoked: the user cannot view users any more and can still view roles.
C23_Witness ==
    \E u \in DOMAIN users, r \in DOMAIN roles, p \in DOMAIN permissions :
        /\ users[u] = <<"b","@","x">>
        /\ roles[r] = User /\ user_roles(u) = {r}
        /\ permissions[p] = view_users
        /\ ~BagIn(<<r, p>>, role_has_permissions)
        /\ ~has_permission(u, view_users)
        /\ has_permission(u, view_roles)

\* C24: the empty capability name never matches: whatever was seeded,
\* created or renamed, no permission is named the empty string, and
\* has_permission(u, '') is false for every user, the administrator who
\* holds every seeded permission included.
C24_EmptyNameNeverMatches ==
    /\ \A p \in DOMAIN permissions : permissions[p] # <<>>
    /\ \A u \in DOMAIN users : ~has_permission(u, <<>>)

\* The administrator, who holds the twelve seeded permissions and can view
\* users, submitted the permission form with the name left empty and was
\* told that the field is required.
C24_Witness ==
    /\ error = "This field is required."
    /\ resp.route \in {"permissions.create", "permissions.edit"}
    /\ is_authenticated(current_user)
    /\ has_permission(current_user, view_users)
    /\ Len(get_permissions(current_user)) = Len(permissions_list)
    /\ ~has_permission(current_user, <<>>)

\* The name is None or the name of no stored role or permission.
Unrecognized(name) ==
    \/ name = None
    \/ /\ \A r \in DOMAIN roles : ~SqlEq(roles[r], name)
       /\ \A p \in DOMAIN permissions : ~SqlEq(permissions[p], name)

\* C25: an evaluator method that is handed a name that is None, or the name
\* of nothing stored, raises nothing: it answers that the name is not held,
\* and the store is as before.
C25_UnrecognizedNameIsNotHeld ==
    [][ \A u \in DOMAIN users, name \in {Editor, delete_users, None},
           method \in {"has_role", "has_any_role", "has_all_roles", "has_permission",
                       "has_any_permission", "has_all_permissions"} :
          (Unrecognized(name) /\ evaluate(method, u, <<name>>))
              => /\ error' = "none"
                 /\ evaluator(method, u, <<name>>) = "False"
                 /\ store' = store ]_vars

\* C26: the caller of a session becomes a user only in a login step of an
\* anonymous caller whose password verified and whose email, lowered, is the
\* stored email of that user; a login whose password does not verify or
\* whose email no user has leaves the caller anonymous; a logout leaves the
\* caller anonymous; and while the caller is anonymous every request to a
\* login-protected or gated route is refused (401, or 302 to the login
\* page) without running the view.
C26_SessionLifecycle ==
    [][ /\ (is_authenticated(current_user') /\ current_user' # current_user)
              => /\ ~is_authenticated(current_user)
                 /\ \E email \in EmailInputs :
                       /\ login(email, TRUE)
                       /\ users[current_user'] = Lower(email)
        /\ \A email \in EmailInputs :
              /\ (~is_authenticated(current_user) /\ login(email, FALSE))
                    => ~is_authenticated(current_user')
              /\ (  /\ ~is_authenticated(current_user)
                    /\ Lower(email) \notin Range(users)
                    /\ login(email, TRUE) )
                    => ~is_authenticated(current_user')
        /\ logout => ~is_authenticated(current_user')
        /\ (is_authenticated(current_user) /\ logout) => session' = 0
        /\ (~is_authenticated(current_user) /\ resp' # NoResponse)
              => ~resp'.ran /\ resp'.status \in {401, 302} ]_vars

\* The user who registered as B@x is logged in, under the lowered email.
C26_Witness ==
    /\ is_authenticated(current_user)
    /\ users[current_user] = <<"b","@","x">>
    /\ resp = NoResponse

\* The step commits a permissions.edit of permission id, named old, after
\* which the permission is named new.
Renames(id, old, new) ==
    /\ requests["w1"].route = "permissions.edit"
    /\ requests["w1"].id = id
    /\ requests["w1"].statements # <<>>
    /\ permissions[id] = old
    /\ commit("w1")
    /\ error' = "none"
    /\ id \in DOMAIN permissions' /\ permissions'[id] = new

\* The rename changed the name of permission id and nothing else, and the
\* roles that held the permission hold it under the new name.
OnlyTheName(id, new) ==
    /\ permissions' = [permissions EXCEPT ![id] = new]
    /\ users' = users /\ roles' = roles
    /\ user_has_roles' = user_has_roles
    /\ role_has_permissions' = role_has_permissions
    /\ \A r \in DOMAIN roles :
          BagIn(<<r, id>>, role_has_permissions)
              => BagIn(<<r, id>>, role_has_permissions') /\ Role_has_permission(r, new)'

\* C27 as claimed: a rename of a permission changes only its name, the
\* roles that held it hold it afterwards, for them has_permission(old name)
\* is false and has_permission(new name) is true, and no pair is added or
\* removed.
C27_RenameDropsOldName ==
    [][ \A id \in SelectableIds \cap DOMAIN permissions,
           new \in {VIEW_USERS, export_users} :
        \A old \in {permissions[id]} :
          Renames(id, old, new)
              => /\ OnlyTheName(id, new)
                 /\ \A r \in DOMAIN roles :
                       BagIn(<<r, id>>, role_has_permissions)
                           => ~Role_has_permission(r, old)' ]_vars

\* C27 amended: a rename of a permission changes only its name, the roles
\* that held it hold it afterwards and no pair is added or removed;
\* has_permission(new name) is true for them, and has_permission(old name)
\* is false for them when the new name differs from the old one in more
\* than letter case, and stays true when it differs in letter case only.
C27_RenameKeepsGrants ==
    [][ \A id \in SelectableIds \cap DOMAIN permissions,
           new \in {VIEW_USERS, export_users} :
        \A old \in {permissions[id]} :
          Renames(id, old, new)
              => /\ OnlyTheName(id, new)
                 /\ \A r \in DOMAIN roles :
                       BagIn(<<r, id>>, role_has_permissions)
                           => (Role_has_permission(r, old)' <=> SqlEq(old, new)) ]_vars

\* 'view users' was renamed to 'export users': the User role still has the
\* pair, holds the new name and does not hold the old one.
C27_Witness ==
    /\ resp = [route |-> "permissions.edit", status |-> 302, ran |-> TRUE]
    /\ error = "none"
    /\ \E r \in DOMAIN roles, p \in SelectableIds \cap DOMAIN permissions :
          /\ roles[r] = User
          /\ permissions[p] = export_users
          /\ BagIn(<<r, p>>, role_has_permissions)
          /\ Role_has_permission(r, export_users)
          /\ ~Role_has_permission(r, view_users)

\* A stored permission, held through a role of the user, has the name.
Grants(u, name) ==
    \E r \in user_roles(u) :
        \E p \in role_permissions(r) : permissions[p] = name

\* C28 as claimed: the uniqueness of permission names is enforced with
\* letter case taken into account, so a permitted permissions.create under
\* a name that no stored permission has letter for letter is accepted, also
\* when a stored name differs from it in letter case only.
C28_UniquenessIsCaseSensitive ==
    [][ \A name \in {VIEW_USERS, export_users} :
          (  /\ requests["w1"] = Idle
             /\ route_gate(create_permissions) = Admitted
             /\ name \notin Range(permissions)
             /\ begin_permissions_create("w1", name) )
              => /\ error' = "none"
                 /\ requests'["w1"].route = "permissions.create" ]_vars

\* C28 amended: the uniqueness of permission names is enforced ignoring
\* letter case: a permitted permissions.create under a name that differs
\* from a stored one in letter case only is refused with the message that
\* the name already exists, so no two stored permissions differ in letter
\* case only; and the evaluator ignores letter case too: a user whose roles
\* grant a permission passes has_any_permission and has_all_permissions
\* checks that name it in the other letter case.
C28_UniquenessIgnoresCase ==
    [][ /\ \A name \in {VIEW_USERS, export_users} :
              (  /\ requests["w1"] = Idle
                 /\ route_gate(create_permissions) = Admitted
                 /\ \E p \in DOMAIN permissions :
                        EqualIgnoringCase(permissions[p], name)
                 /\ begin_permissions_create("w1", name) )
                  => NameRefused("Permission name already exists.")
        /\ \A p1, p2 \in DOMAIN permissions' :
              p1 # p2 => ~EqualIgnoringCase(permissions'[p1], permissions'[p2])
        /\ \A u \in DOMAIN users :
              /\ Grants(u, view_users)
                    => /\ has_any_permission(u, <<VIEW_USERS>>)
                       /\ has_all_permissions(u, <<VIEW_USERS>>)
              /\ Grants(u, VIEW_USERS)
                    => /\ has_any_permission(u, <<view_users>>)
                       /\ has_all_permissions(u, <<view_users>>) ]_vars

\* With 'view users' stored, the administrator asked for a permission
\* 'VIEW USERS' to be created and was told that the name exists; the
\* administrator passes the checks that name the permission in capitals.
C28_Witness ==
    /\ error = "Permission name already exists."
    /\ resp = [route |-> "permissions.create", status |-> 200, ran |-> TRUE]
    /\ view_users \in Range(permissions)
    /\ VIEW_USERS \notin Range(permissions)
    /\ export_users \notin Range(permissions)
    /\ has_any_permission(current_user, <<VIEW_USERS>>)
    /\ has_all_permissions(current_user, <<VIEW_USERS>>)

\* The session carries the id of a user that is no longer stored.
DeletedUserSession == session # 0 /\ session \notin DOMAIN users

\* C29: a session that still carries the id of a deleted user is anonymous:
\* the user loader resolves it to no user, every gated request made from it
\* is answered 401 without running the wrapped function, and the id never
\* comes to name a user again; this is also the state the administrator is
\* left in by deleting their own account.
C29_DeletedUserIsAnonymous ==
    [][ /\ DeletedUserSession
             => /\ current_user = Anonymous
                /\ \A rt \in GateRoutes :
                      gated_request(rt) => resp'.status = 401 /\ ~resp'.ran
                /\ session' = session => DeletedUserSession'
        /\ \A id \in DOMAIN users :
              (  /\ id = current_user
                 /\ users_delete(id)
                 /\ resp'.ran )
                  => /\ session' = id
                     /\ id \notin DOMAIN users'
                     /\ current_user' = Anonymous ]_vars

\* The only user ever stored deleted their own account, and the next gated
\* request of their session was answered 401.
C29_Witness ==
    /\ session = 1
    /\ next_user_id = 2
    /\ users = <<>>
    /\ resp = [route |-> "test_role_required", status |-> 401, ran |-> FALSE]

\* The two join tables hold the same rows except, at most, the rows of S.
SameExcept(old, new, S) ==
    \A row \in (BagToSet(old) \cup BagToSet(new)) \ S :
        CopiesIn(row, old) = CopiesIn(row, new)

\* The rows of role_has_permissions that belong to role r.
GrantsOf(r) == {r} \X (DOMAIN permissions \cup {row[2] : row \in BagToSet(role_has_permissions)})

\* C30: the membership operations are local. assign_role(u, r) and
\* remove_role(u, r) change at most the pair (u, r) of user_has_roles and
\* leave the users, the roles, the permissions and every grant as they
\* were; give_permission_to, revoke_permission_to, assign_to_role,
\* remove_from_role and sync_permissions on role r change at most r's rows
\* of role_has_permissions and leave the users, the roles, the permissions
\* and every user-role pair as they were.
C30_MembershipIsLocal ==
    [][ /\ \A u \in DOMAIN users, r \in DOMAIN roles :
              (assign_role(u, r) \/ remove_role(u, r))
                  => /\ SameExcept(user_has_roles, user_has_roles', {<<u, r>>})
                     /\ UNCHANGED <<users, roles, permissions, role_has_permissions>>
        /\ \A r \in DOMAIN roles, p \in DOMAIN permissions :
              (  \/ give_permission_to(r, p)
                 \/ revoke_permission_to(r, p)
                 \/ assign_to_role(p, r)
                 \/ remove_from_role(p, r) )
                  => /\ SameExcept(role_has_permissions, role_has_permissions',
                                   GrantsOf(r))
                     /\ UNCHANGED <<users, roles, permissions, user_has_roles>>
        /\ \A r \in DOMAIN roles, perms \in Selections :
              Role_sync_permissions(r, perms)
                  => /\ SameExcept(role_has_permissions, role_has_permissions',
                                   GrantsOf(r))
                     /\ UNCHANGED <<users, roles, permissions, user_has_roles>> ]_vars

\* Both users hold the Admin role and both roles hold both permissions;
\* then 'view users' was revoked from role 1 and the role was taken from
\* user 1: the other user's pair and the other role's grants are still
\* there.
C30_Witness ==
    /\ DOMAIN users = {1, 2} /\ DOMAIN roles = {1, 2}
    /\ DOMAIN permissions = {1, 2}
    /\ BagToSet(user_has_roles) = {<<2, 1>>}
    /\ BagToSet(role_has_permissions) = {<<1, 2>>, <<2, 1>>, <<2, 2>>}

====
